---- MODULE Spec2Model ----
(***************************************************************************)
(* Model of the branching execution core of computer_use_agents:           *)
(*   - retry_with_exponential_backoff   (agent/autonomous_agent.py)        *)
(*   - AutonomousAgent: start, stop, _run_loop, autonomous_handle_item     *)
(*   - BranchingAgent: run_branches, create_branches, create_agents,       *)
(*     start_agents, wait_for_agents_completion, stop_all_agents,          *)
(*     get_results                      (agent/branching_agent.py)         *)
(*                                                                         *)
(* Three specifications share the variables:                               *)
(*   SpecRetry   the retry policy applied to a scripted operation          *)
(*   SpecEngine  one engine driven by start()/stop() and its own thread    *)
(*   Spec        the coordinator's run_branches with its engines           *)
(***************************************************************************)
EXTENDS Integers, Sequences, FiniteSets, TLC

VARIABLES
    eng,        \* branch id -> AutonomousAgent object (fields and thread position)
    computers,  \* computer handle -> state of that environment
    coord,      \* the BranchingAgent object and the position of its caller
    rt          \* the last call of retry_with_exponential_backoff: input and outcome

vars == <<eng, computers, coord, rt>>

(***************************************************************************)
(* Bounds of the model                                                     *)
(***************************************************************************)
MaxSteps == 2          \* largest max_steps given to an engine
MaxBranches == 2       \* largest number of instructions given to run_branches
MaxRetriesBound == 3   \* largest max_retries given to the retry policy alone
MaxRecords == 6        \* largest number of events recorded in one trajectory
MaxDepth == 2          \* deepest nesting of containers in a sanitized payload
MaxCalls == 3          \* calls of the item handler on a computer_call with storage
MaxEngines == 3        \* engines constructed one after another by one caller
MaxThreads == 2        \* threads one engine is given by successive calls of start()

(***************************************************************************)
(* Program constants                                                       *)
(***************************************************************************)
DefaultMaxRetries == 5       \* max_retries=5
DefaultInitialDelay == 100   \* initial_delay=0.1 s, in milliseconds
JitterPercent == 10          \* random.uniform(0, 0.1 * delay), in percent
FlushEveryActions == 5       \* len(self.trajectory["actions"]) % 5 == 0
FlushEveryInteractions == 2  \* len(self.trajectory["interactions"]) % 2 == 0

None == "None"

(***************************************************************************)
(* retry_with_exponential_backoff(func, max_retries, initial_delay)        *)
(*                                                                         *)
(* func is scripted: script[n] says whether its n-th invocation returns    *)
(* ("ok") or raises ("err").  The value returned (the error raised) by the *)
(* n-th invocation is identified by n.  jit[j] is the percentage of the    *)
(* delay that random.uniform draws for the j-th sleep.  The error 0 is the *)
(* Exception("Max retries exceeded") of the last line.                     *)
(***************************************************************************)
RECURSIVE RetryLoop(_, _, _, _, _, _, _)
RetryLoop(script, jit, max_retries, retries, delay, calls, sleeps) ==
    IF retries < max_retries
    THEN LET n == calls + 1 IN
         IF script[n] = "ok"
         THEN [status |-> "returned", value |-> n, calls |-> n, sleeps |-> sleeps]
         ELSE LET r == retries + 1 IN
              IF r >= max_retries
              THEN [status |-> "raised", value |-> n, calls |-> n, sleeps |-> sleeps]
              ELSE LET jitter == (delay * jit[Len(sleeps) + 1]) \div 100
                       sleep_time == delay + jitter
                   IN  RetryLoop(script, jit, max_retries, r, delay * 2, n,
                                 Append(sleeps, [delay |-> delay, slept |-> sleep_time]))
    ELSE [status |-> "raised", value |-> 0, calls |-> calls, sleeps |-> sleeps]

RetryStopsAfterFirstFailure(func, jit, max_retries, initial_delay) ==
    RetryLoop(func, jit, IF max_retries > 1 THEN 1 ELSE max_retries, 0, initial_delay, 0, <<>>)

RetryOneAttemptTooMany(func, jit, max_retries, initial_delay) ==
    RetryLoop(func, jit, max_retries + 1, 0, initial_delay, 0, <<>>)

RetryWithoutBackoff(func, jit, max_retries, initial_delay) ==
    LET out == RetryLoop(func, jit, max_retries, 0, initial_delay, 0, <<>>) IN
    [out EXCEPT !.sleeps = [j \in DOMAIN out.sleeps |->
                               [delay |-> initial_delay,
                                slept |-> initial_delay + (out.sleeps[j].slept
                                                           - out.sleeps[j].delay)]]]

retry_with_exponential_backoff(func, jit, max_retries, initial_delay) ==
    RetryLoop(func, jit, max_retries, 0, initial_delay, 0, <<>>)

Scripts(n) == [1..n -> {"ok", "err"}]
Jitters(n) == [1..n -> {0, JitterPercent \div 2, JitterPercent}]
NoJitter(n) == [j \in 1..n |-> 0]

RetryIdle == [state |-> "idle"]

RetryInit == rt = RetryIdle

\* One call of the retry policy on a scripted operation.
RetryCall ==
    /\ rt.state = "idle"
    /\ \E max_retries \in 0..MaxRetriesBound :
       \E func \in Scripts(MaxRetriesBound + 1), jit \in Jitters(MaxRetriesBound) :
          rt' = [state |-> "called", func |-> func, max_retries |-> max_retries,
                 out |-> retry_with_exponential_backoff(func, jit, max_retries,
                                                        DefaultInitialDelay)]
    /\ UNCHANGED <<eng, computers, coord>>

\* The caller is ready for another call.
RetryReturn ==
    /\ rt.state = "called"
    /\ rt' = RetryIdle
    /\ UNCHANGED <<eng, computers, coord>>

(***************************************************************************)
(* Conversation items.  call_id identifies a call (and its output),        *)
(* content the text of an assistant message, name the tool of a call or    *)
(* the prompt of a user message, args the arguments of a call or the text  *)
(* of an output.  Ids are positions in the conversation, so the provider   *)
(* never reuses one within a run.                                          *)
(***************************************************************************)
Item(type, role, name, call_id, args, content) ==
    [type |-> type, role |-> role, name |-> name, call_id |-> call_id,
     args |-> args, content |-> content]

\* {"role": "user", "content": ...}: the initial task or the continuation prompt
UserMessage(text) == Item("message", "user", text, 0, "", 0)

\* The items the provider can put into a response, by kind.
ProviderItem(kind, id) ==
    CASE kind = "message"        -> Item("message", "assistant", "", 0, "", id)
      [] kind = "computer_call"  -> Item("computer_call", "", "", id, "", 0)
      [] kind = "function_call"  -> Item("function_call", "", "tool", id, "ok", 0)
      [] kind = "done"           -> Item("function_call", "", "done", id, "ok", 0)
      [] kind = "done_noreason"  -> Item("function_call", "", "done", id, "noreason", 0)
      [] kind = "done_malformed" -> Item("function_call", "", "done", id, "malformed", 0)

\* create_response(...): the provider's answers the model explores.
\* has_output = FALSE is a response without an "output" field.
ResponseKinds ==
    { <<"message">>, <<"computer_call">>, <<"function_call">>, <<"done">>,
      <<"done_noreason">>, <<"done_malformed">>, <<"message", "done">>,
      <<"done", "computer_call">>, <<"function_call", "done">>, <<>> }

\* The answers explored when several engines run side by side.
BranchResponseKinds == { <<"message">>, <<"computer_call">>, <<"done">> }

ProviderOutput(kinds, base) ==
    [i \in 1..Len(kinds) |-> ProviderItem(kinds[i], base + i)]

IsDoneCall(item) == item.type = "function_call" /\ item.name = "done"

\* json.loads(item.get("arguments", "{}")) raises on text that is not JSON
JsonLoadsRaises(item) == item.args = "malformed"

\* args.get("reason", "Task completed")
DoneReason(item) == IF item.args = "ok" THEN "reason" ELSE "Task completed"

\* The function_call_output the loop appends for a 'done' call.
DoneAckDropped(item) == <<>>

DoneAck(item) ==
    <<Item("function_call_output", "", "", item.call_id, DoneReason(item), 0)>>

\* Agent.handle_item: executes the item on the environment and returns the
\* items it produces: the output of a tool call, nothing for 'done'.
HandleItem(item) ==
    CASE item.type = "computer_call" ->
             <<Item("computer_call_output", "", "", item.call_id, "", 0)>>
      [] item.type = "function_call" /\ ~IsDoneCall(item) ->
             <<Item("function_call_output", "", "", item.call_id, "success", 0)>>
      [] OTHER -> <<>>

\* What handling one item can do: finish, or raise (the screenshot, the write
\* of the screenshot file or the action on the environment fails).
HandleOutcomes(item) ==
    IF item.type = "computer_call" THEN {"ok", "raise"} ELSE {"ok"}

RECURSIVE LastAssistant(_, _)
LastAssistant(items, i) ==
    IF i = 0 THEN 0
    ELSE IF items[i].role = "assistant" THEN items[i].content
         ELSE LastAssistant(items, i - 1)

(***************************************************************************)
(* The trajectory record of an engine that was given a storage_folder      *)
(*   actions, interactions  the lists of self.trajectory, by kind of event *)
(*   file     what trajectory.json holds; valid is false after a write that*)
(*            failed once the file was opened (and so truncated)           *)
(*   flushes  the writes attempted: what caused each, the sizes of the     *)
(*            lists at that moment, and whether it succeeded               *)
(*   raised   an exception of a write has left the recorder                *)
(***************************************************************************)
EmptyFile == [valid |-> FALSE, actions |-> <<>>, interactions |-> <<>>]

\* No storage_folder: the engine has no trajectory attribute
NoTrajectory ==
    [exists |-> FALSE, actions |-> <<>>, interactions |-> <<>>,
     file |-> EmptyFile, flushes |-> <<>>, raised |-> FALSE,
     payload |-> <<>>, sanitized |-> <<>>]

\* open(self.trajectory_file, 'w') and json.dump(self.trajectory, f): the
\* write succeeds, fails before the file is opened, or fails after it.
WriteOutcomes == {"ok", "fail_open", "fail_dump"}

\* with open(...) as f: json.dump(...) inside try/except Exception
WriteFileUnguarded(t, w, cause) ==
    LET logged == [t EXCEPT !.flushes =
                      Append(@, [cause |-> cause, actions |-> Len(t.actions),
                                 interactions |-> Len(t.interactions),
                                 ok |-> (w = "ok")])]
    IN  CASE w = "ok" ->
               [logged EXCEPT !.file = [valid |-> TRUE, actions |-> t.actions,
                                        interactions |-> t.interactions]]
          [] w = "fail_open" -> [logged EXCEPT !.raised = TRUE]
          [] w = "fail_dump" -> [logged EXCEPT !.file.valid = FALSE, !.raised = TRUE]

WriteFile(t, w, cause) ==
    LET logged == [t EXCEPT !.flushes =
                      Append(@, [cause |-> cause, actions |-> Len(t.actions),
                                 interactions |-> Len(t.interactions),
                                 ok |-> (w = "ok")])]
    IN  CASE w = "ok" ->
               [logged EXCEPT !.file = [valid |-> TRUE, actions |-> t.actions,
                                        interactions |-> t.interactions]]
          [] w = "fail_open" -> logged
          [] w = "fail_dump" -> [logged EXCEPT !.file.valid = FALSE]

\* __init__ with a storage_folder: the empty record and its first write
NewTrajectory(w) ==
    WriteFile([NoTrajectory EXCEPT !.exists = TRUE], w, "init")

\* _save_trajectory_file
save_trajectory_file(t, w, cause) ==
    IF ~t.exists THEN t ELSE WriteFile(t, w, cause)

\* _record_in_trajectory(action_type, data)
record_in_trajectory(t, w) ==
    IF ~t.exists THEN t
    ELSE LET t1 == [t EXCEPT !.actions =
                       Append(@, [type |-> "recorded", call |-> 0,
                                  screenshot_name |-> -1])] IN
         IF Len(t1.actions) % FlushEveryActions = 0
         THEN save_trajectory_file(t1, w, "action")
         ELSE t1

RecordInteractionEvenOnly(t, interaction_type, w) ==
    IF ~t.exists THEN t
    ELSE LET t1 == [t EXCEPT !.interactions = Append(@, interaction_type)] IN
         IF Len(t1.interactions) % FlushEveryInteractions = 0
         THEN save_trajectory_file(t1, w, "interaction")
         ELSE t1

\* _record_interaction(interaction_type, data)
record_interaction(t, interaction_type, w) ==
    IF ~t.exists THEN t
    ELSE LET t1 == [t EXCEPT !.interactions = Append(@, interaction_type)] IN
         IF interaction_type = "response"
               \/ Len(t1.interactions) % FlushEveryInteractions = 0
         THEN save_trajectory_file(t1, w, "interaction")
         ELSE t1

\* autonomous_handle_item on a computer_call: the action is appended to
\* self.trajectory["actions"] and the file is written
RecordHandledAction(t, w, call, screenshot_name) ==
    IF ~t.exists THEN t
    ELSE WriteFile([t EXCEPT !.actions =
                       Append(@, [type |-> "computer_call", call |-> call,
                                  screenshot_name |-> screenshot_name])],
                   w, "action")

\* autonomous_handle_item: the screenshot is written to screenshot_<counter>.png
\* and the counter incremented; a failed write raises before the increment
SaveScreenshotKeepsCounter(s, shows, sw) ==
    [s EXCEPT !.files = Append(@, [name |-> s.counter, call |-> s.handled,
                                   shows |-> shows, ok |-> (sw = "ok")])]

SaveScreenshot(s, shows, sw) ==
    [s EXCEPT !.files = Append(@, [name |-> s.counter, call |-> s.handled,
                                   shows |-> shows, ok |-> (sw = "ok")]),
              !.counter = IF sw = "ok" THEN s.counter + 1 ELSE s.counter]

(***************************************************************************)
(* AutonomousAgent                                                         *)
(*   pc: idle     constructed, no loop running                             *)
(*       initial  its thread has entered _run_loop                         *)
(*       process  inside the for loop over response["output"]              *)
(*       finish   after the for loop, before steps_taken += 1              *)
(*       loop     at the while condition                                   *)
(*       ended    _run_loop has returned or its thread has died            *)
(*   exit: how _run_loop ended                                             *)
(*   thread: the thread handle, 0 for None, n for the n-th thread created  *)
(*   start_returned: what the last call of start() returned                *)
(*   steps_at_stop: steps_taken when stop() was called                     *)
(*   requests: the requests of the run in the order they were issued: the  *)
(*       user messages of the input, the last of them, and whether the     *)
(*       loop slept step_delay before it                                   *)
(*   dispatched: the items of the last response handed to the item handler *)
(*   screens: the screenshots of an engine that has a storage_folder:       *)
(*       counter is self.screenshot_counter, files the writes of           *)
(*       screenshot files attempted (name n for screenshot_n.png, the call *)
(*       of the handler that made it, the number of actions the            *)
(*       environment had executed when the screen was captured, and        *)
(*       whether the write succeeded), handled the calls of the handler on *)
(*       a computer_call, last how the last of them ended                  *)
(*   reported: "max_steps" once the loop has printed that it reached the   *)
(*       maximum number of steps                                           *)
(*   superseded: the threads still executing _run_loop that self.thread no *)
(*       longer refers to, each by where it is: in the for loop of a turn  *)
(*       (turn), after it (finish) or at the while condition (loop)        *)
(***************************************************************************)
NewAgent(branch_id, computer, initial_task, max_steps, has_callback) ==
    [branch_id |-> branch_id, computer |-> computer, initial_task |-> initial_task,
     max_steps |-> max_steps, has_callback |-> has_callback,
     running |-> FALSE, steps_taken |-> 0, last_response |-> 0,
     conversation |-> <<>>,
     pc |-> "idle", turn |-> "none", items |-> <<>>, response |-> <<>>, idx |-> 0,
     exit |-> "none", done_seen |-> FALSE, stop_called |-> FALSE,
     callbacks |-> <<>>,
     thread |-> 0, start_returned |-> "none", steps_at_stop |-> 0,
     superseded |-> <<>>, reported |-> "none", requests |-> <<>>,
     dispatched |-> <<>>,
     screens |-> [counter |-> 0, files |-> <<>>, handled |-> 0, last |-> "none"],
     trajectory |-> NoTrajectory]

CallbackTwice(a, step, action) ==
    IF a.has_callback
    THEN [a EXCEPT !.callbacks = @ \o <<[step |-> step, action |-> action],
                                        [step |-> step, action |-> action]>>]
    ELSE a

\* if self.callback: self.callback(step=..., action=..., response=...): the
\* invocations of the callback are kept in the order they are made.
Callback(a, step, action) ==
    IF a.has_callback
    THEN [a EXCEPT !.callbacks = Append(@, [step |-> step, action |-> action])]
    ELSE a

\* self.callback(...) when a callback was given: it returns or raises.
CallbackOutcomes(a) == IF a.has_callback THEN {"ok", "raise"} ELSE {"ok"}

\* After the while loop: if self.steps_taken >= self.max_steps the loop
\* prints "Reached maximum ... steps (agent did not call 'done')"
Report(a) == IF a.steps_taken >= a.max_steps THEN "max_steps" ELSE "none"

\* The except clause of a turn: report through the callback, end the loop.
\* In the initial turn: callback, running = False, return.  In a later turn:
\* callback, break, then the final running = False.  A callback that raises
\* here leaves _run_loop with the exception and running as it was.
ErrorEndsAllAgents(e, a, cb) ==
    [b \in DOMAIN eng |->
        IF b = e
        THEN [a EXCEPT !.pc = "ended", !.exit = "error", !.running = FALSE]
        ELSE [eng[b] EXCEPT !.running = FALSE]]

TurnError(e, a, cb) ==
    LET a1 == Callback(a, IF a.turn = "initial" THEN 1 ELSE a.steps_taken, "error") IN
    [eng EXCEPT ![e] =
        IF cb = "ok"
        THEN [a1 EXCEPT !.pc = "ended", !.exit = "error", !.running = FALSE,
                        !.reported = IF a.turn = "initial" THEN "none" ELSE Report(a1)]
        ELSE [a1 EXCEPT !.pc = "ended", !.exit = "crashed"]]

\* AutonomousAgent.start(blocking=False): nothing when running, else the flag,
\* the step count and a new thread on _run_loop
StartWithoutGuard(a) ==
    [a EXCEPT !.running = TRUE, !.steps_taken = 0,
              !.thread = a.thread + 1, !.start_returned = "thread",
              !.pc = "initial", !.turn = "initial",
              !.exit = "none", !.done_seen = FALSE, !.stop_called = FALSE]

\* Where the thread self.thread refers to is when start() replaces it
WorkerAt(pc) ==
    CASE pc \in {"initial", "process"} -> <<"turn">>
      [] pc = "finish" -> <<"finish">>
      [] pc = "loop" -> <<"loop">>
      [] OTHER -> <<>>

start(a) ==
    IF a.running
    THEN [a EXCEPT !.start_returned = "None"]
    ELSE [a EXCEPT !.running = TRUE, !.steps_taken = 0,
                   !.thread = a.thread + 1, !.start_returned = "thread",
                   !.pc = "initial", !.turn = "initial",
                   !.exit = "none", !.done_seen = FALSE, !.stop_called = FALSE,
                   !.reported = "none", !.requests = <<>>, !.dispatched = <<>>,
                   !.superseded = @ \o WorkerAt(a.pc)]

\* AutonomousAgent.stop(): clears the flag, then joins the thread for at most 1 s
StopWithoutClearingFlag(a) ==
    [a EXCEPT !.stop_called = TRUE, !.steps_at_stop = a.steps_taken]

stop(a) ==
    [a EXCEPT !.running = FALSE, !.stop_called = TRUE, !.steps_at_stop = a.steps_taken]

\* What the provider does on the successive invocations of one request: it
\* answers at once, answers on the last attempt the retry policy makes, or
\* never answers.
ProviderScripts ==
    { [n \in 1..DefaultMaxRetries |-> "ok"],
      [n \in 1..DefaultMaxRetries |-> IF n < DefaultMaxRetries THEN "err" ELSE "ok"],
      [n \in 1..DefaultMaxRetries |-> "err"] }

\* What one request can come to: the retry policy raises, the response has no
\* "output", or it has the output of one of the kinds.
RequestOutcomes(kindsSet) ==
    LET Call(func) == retry_with_exponential_backoff(func, NoJitter(DefaultMaxRetries),
                                                     DefaultMaxRetries, DefaultInitialDelay)
    IN  {[status |-> "raised", kinds |-> <<>>] :
            func \in {f \in ProviderScripts : Call(f).status = "raised"}}
        \cup
        {[status |-> st, kinds |-> IF st = "output" THEN kinds ELSE <<>>] :
            st \in {"output", "no_output"}, kinds \in kindsSet,
            func \in {f \in ProviderScripts : Call(f).status = "returned"}}

\* create_response(model=..., input=items, ...): the input of the request
UserMessages(items) == SelectSeq(items, LAMBDA it : it.role = "user")

IssueRequest(a) ==
    LET users == UserMessages(a.items) IN
    [a EXCEPT !.requests =
        Append(@, [users |-> Len(users),
                   last_user |-> IF users = <<>> THEN "" ELSE users[Len(users)].name,
                   slept |-> (a.turn = "continuation")])]

\* The request of one turn: the provider call through the retry policy with
\* the defaults, the check for "output", and items += response["output"].
TurnRequest(e, a0, kindsSet) ==
    LET a == IssueRequest(a0) IN
    \E r \in RequestOutcomes(kindsSet) :
       CASE r.status = "raised" ->
              \E cb \in CallbackOutcomes(a) : eng' = TurnError(e, a, cb)
         [] r.status = "no_output" ->
              eng' = [eng EXCEPT ![e] =
                        [a EXCEPT !.pc = "ended", !.exit = "no_output",
                                  !.running = FALSE]]
         [] r.status = "output" ->
              LET out == ProviderOutput(r.kinds, Len(a.items)) IN
              eng' = [eng EXCEPT ![e] =
                        [a EXCEPT !.items = a.items \o out,
                                  !.response = out, !.idx = 1,
                                  !.dispatched = <<>>,
                                  !.pc = IF Len(out) = 0 THEN "finish" ELSE "process"]]

\* _run_loop up to the for loop of the initial turn
InitialTurn(e, kindsSet) ==
    /\ eng[e].pc = "initial"
    /\ TurnRequest(e, [eng[e] EXCEPT !.items = <<UserMessage(eng[e].initial_task)>>],
                   kindsSet)
    /\ UNCHANGED <<computers, coord, rt>>

\* The while condition of the follow-up steps, and the check after the sleep
LoopConditionIgnoresRunning(a) == a.steps_taken < a.max_steps

LoopCondition(a) == a.running /\ a.steps_taken < a.max_steps

\* time.sleep(self.step_delay) and items.append(continuation prompt)
ContinuationInputWithoutPrompt(a) == [a EXCEPT !.turn = "continuation"]

ContinuationInput(a) ==
    [a EXCEPT !.turn = "continuation",
              !.items = Append(@, UserMessage("continuation"))]

\* One pass of the while loop up to the for loop: sleep, continuation, request
ContinuationTurn(e, kindsSet) ==
    /\ eng[e].pc = "loop"
    /\ LoopCondition(eng[e])
    /\ TurnRequest(e, ContinuationInput(eng[e]), kindsSet)
    /\ UNCHANGED <<computers, coord, rt>>

\* The while loop is left: the final running = False
LoopExit(e) ==
    /\ eng[e].pc = "loop"
    /\ ~LoopCondition(eng[e])
    /\ eng' = [eng EXCEPT ![e] = [@ EXCEPT !.pc = "ended", !.exit = "exited",
                                           !.running = FALSE,
                                           !.reported = Report(eng[e])]]
    /\ UNCHANGED <<computers, coord, rt>>

\* new_items = self.autonomous_handle_item(item): the handler is given the item
DispatchExceptDone(a, item) ==
    IF IsDoneCall(item) THEN a ELSE [a EXCEPT !.dispatched = Append(@, item)]

Dispatch(a, item) == [a EXCEPT !.dispatched = Append(@, item)]

\* One pass of the for loop over response["output"]: the 'done' check, then
\* autonomous_handle_item, then items += new_items.
ProcessItem(e) ==
    LET a == eng[e]
        item == a.response[a.idx]
    IN
    /\ a.pc = "process"
    /\ \E cb \in CallbackOutcomes(a), h \in HandleOutcomes(item) :
         IF IsDoneCall(item) /\ JsonLoadsRaises(item)
         THEN /\ eng' = TurnError(e, a, cb)
              /\ UNCHANGED computers
         ELSE LET a1 == IF IsDoneCall(item)
                        THEN [a EXCEPT !.running = FALSE, !.done_seen = TRUE,
                                       !.items = a.items \o DoneAck(item)]
                        ELSE a
                  a2 == Dispatch(a1, item)
              IN  IF h = "raise"
                  THEN /\ eng' = TurnError(e, a2, cb)
                       /\ UNCHANGED computers
                  ELSE /\ eng' = [eng EXCEPT ![e] =
                                    [a2 EXCEPT !.items = a1.items \o HandleItem(item),
                                               !.idx = a.idx + 1,
                                               !.pc = IF a.idx = Len(a.response)
                                                      THEN "finish" ELSE "process"]]
                       /\ computers' =
                            IF item.type = "computer_call"
                            THEN [computers EXCEPT ![a.computer].actions = @ + 1]
                            ELSE computers
    /\ UNCHANGED <<coord, rt>>

\* After the for loop: steps_taken += 1, last_response, conversation, callback
FinishTurn(e) ==
    LET a == eng[e]
        last == LastAssistant(a.items, Len(a.items))
        a0 == [a EXCEPT !.steps_taken = a.steps_taken + 1,
                        !.last_response = IF last = 0 THEN a.last_response ELSE last,
                        !.conversation = a.items]
        a1 == IF a.turn = "initial" THEN Callback(a0, 1, "initial_task")
              ELSE Callback(a0, a0.steps_taken, "continuation")
    IN
    /\ a.pc = "finish"
    /\ \E cb \in CallbackOutcomes(a), cb2 \in CallbackOutcomes(a) :
         IF cb = "ok"
         THEN eng' = [eng EXCEPT ![e] = [a1 EXCEPT !.pc = "loop"]]
         ELSE eng' = TurnError(e, a1, cb2)
    /\ UNCHANGED <<computers, coord, rt>>

(***************************************************************************)
(* SpecEngine: one engine, constructed with some max_steps, started once   *)
(* by its owner and possibly stopped by it.                                *)
(***************************************************************************)
TheAgent == "branch-0"

\* A computer: the actions executed on it and the calls of its __exit__
NewComputer == [actions |-> 0, released |-> 0]

\* MorphComputer.from_snapshot(snapshot).__enter__()
FromSnapshot(snapshot) == [actions |-> snapshot.actions, released |-> 0]

EngineInit ==
    /\ \E max_steps \in 0..MaxSteps, has_callback \in BOOLEAN :
         eng = [b \in {TheAgent} |->
                   NewAgent(TheAgent, 1, "initial_task", max_steps, has_callback)]
    /\ computers = [c \in {1} |-> NewComputer]
    /\ coord = [pc |-> "none"]
    /\ rt = RetryIdle

OwnerStart ==
    /\ eng[TheAgent].pc = "idle"
    /\ eng' = [eng EXCEPT ![TheAgent] = start(@)]
    /\ UNCHANGED <<computers, coord, rt>>

\* start() on the engine while its running flag is set
OwnerStartAgain ==
    /\ eng[TheAgent].running
    /\ eng' = [eng EXCEPT ![TheAgent] = start(@)]
    /\ UNCHANGED <<computers, coord, rt>>

OwnerStop ==
    /\ eng[TheAgent].pc # "idle"
    /\ ~eng[TheAgent].stop_called
    /\ eng' = [eng EXCEPT ![TheAgent] = stop(@)]
    /\ UNCHANGED <<computers, coord, rt>>

EngineNext ==
    \/ OwnerStart
    \/ OwnerStartAgain
    \/ OwnerStop
    \/ InitialTurn(TheAgent, ResponseKinds)
    \/ ContinuationTurn(TheAgent, ResponseKinds)
    \/ ProcessItem(TheAgent)
    \/ FinishTurn(TheAgent)
    \/ LoopExit(TheAgent)

SpecEngine == EngineInit /\ [][EngineNext]_vars

(***************************************************************************)
(* SpecRestart: the same engine, whose owner may also call start() again   *)
(* whenever the running flag is clear: after the loop has ended, after a   *)
(* stop() whose join of 1 s has expired, or after a 'done' call has        *)
(* cleared the flag.  A thread that start() has replaced goes on in        *)
(* _run_loop on the same object; of what it does, the model keeps what it  *)
(* does to the fields start() and the while condition read.                *)
(***************************************************************************)
OwnerRestart ==
    /\ eng[TheAgent].pc # "idle"
    /\ ~eng[TheAgent].running
    /\ eng[TheAgent].thread < MaxThreads
    /\ eng' = [eng EXCEPT ![TheAgent] = start(@)]
    /\ UNCHANGED <<computers, coord, rt>>

RemoveAt(seq, i) == SubSeq(seq, 1, i - 1) \o SubSeq(seq, i + 1, Len(seq))

\* A replaced thread gets through the for loop of its turn: nothing, a
\* 'done' call (running = False), or an exception (the except clause:
\* running = False, and _run_loop is over)
SupersededTurn ==
    \E i \in 1..Len(eng[TheAgent].superseded) :
       /\ eng[TheAgent].superseded[i] = "turn"
       /\ \E outcome \in {"items", "done", "error"} :
            eng' = [eng EXCEPT ![TheAgent] =
                      CASE outcome = "items" -> [@ EXCEPT !.superseded[i] = "finish"]
                        [] outcome = "done" ->
                             [@ EXCEPT !.superseded[i] = "finish", !.running = FALSE]
                        [] outcome = "error" ->
                             [@ EXCEPT !.superseded = RemoveAt(@, i), !.running = FALSE]]
       /\ UNCHANGED <<computers, coord, rt>>

\* A replaced thread after the for loop: self.steps_taken += 1
SupersededFinish ==
    \E i \in 1..Len(eng[TheAgent].superseded) :
       /\ eng[TheAgent].superseded[i] = "finish"
       /\ eng' = [eng EXCEPT ![TheAgent] =
                     [@ EXCEPT !.superseded[i] = "loop", !.steps_taken = @ + 1]]
       /\ UNCHANGED <<computers, coord, rt>>

\* A replaced thread at the while condition: another turn, or the final
\* running = False
SupersededLoop ==
    \E i \in 1..Len(eng[TheAgent].superseded) :
       /\ eng[TheAgent].superseded[i] = "loop"
       /\ eng' = [eng EXCEPT ![TheAgent] =
                     IF LoopCondition(@)
                     THEN [@ EXCEPT !.superseded[i] = "turn"]
                     ELSE [@ EXCEPT !.superseded = RemoveAt(@, i), !.running = FALSE]]
       /\ UNCHANGED <<computers, coord, rt>>

RestartNext ==
    \/ OwnerStart
    \/ OwnerRestart
    \/ OwnerStop
    \/ InitialTurn(TheAgent, BranchResponseKinds)
    \/ ContinuationTurn(TheAgent, BranchResponseKinds)
    \/ ProcessItem(TheAgent)
    \/ FinishTurn(TheAgent)
    \/ LoopExit(TheAgent)
    \/ SupersededTurn
    \/ SupersededFinish
    \/ SupersededLoop

SpecRestart == EngineInit /\ [][RestartNext]_vars

(***************************************************************************)
(* The tool list of an engine.  A list is an object: lists maps the name   *)
(* of each list object to its contents (the names of its tools).  "default"*)
(* is the list that is the default value of the parameter tools, created   *)
(* once when the class is defined; the others belong to the caller.  An    *)
(* engine keeps the list it was given (self.agent.tools), not a copy.      *)
(***************************************************************************)
CallerLists == {"caller-1", "caller-2"}

\* What a caller's list holds before the first construction
CallerTools ==
    {<<>>, <<"computer-preview">>, <<"done">>, <<"computer-preview", "done">>}

Count(tools, name) == Cardinality({i \in 1..Len(tools) : tools[i] = name})

AppendDoneAlways(tools) == Append(tools, "done")

\* has_done_tool = any(...); if not has_done_tool: tools.append(done_tool)
AppendDoneTool(tools) ==
    IF \E i \in 1..Len(tools) : tools[i] = "done" THEN tools
    ELSE Append(tools, "done")

ToolsInit ==
    /\ eng = <<>>
    /\ computers = [c \in {1} |-> NewComputer]
    /\ \E c1 \in CallerTools, c2 \in CallerTools :
         coord = [pc |-> "constructing",
                  lists |-> [l \in CallerLists \cup {"default"} |->
                                CASE l = "default" -> <<>>
                                  [] l = "caller-1" -> c1
                                  [] l = "caller-2" -> c2]]
    /\ rt = RetryIdle

\* AutonomousAgent(tools=l, ...), and AutonomousAgent(...) when l = "default"
Construct(l) ==
    /\ Len(eng) < MaxEngines
    /\ coord' = [coord EXCEPT !.lists[l] = AppendDoneTool(@)]
    /\ eng' = Append(eng, [tools |-> l])
    /\ UNCHANGED <<computers, rt>>

ConstructWithDefaultTools == Construct("default")

ConstructWithCallerTools == \E l \in CallerLists : Construct(l)

ToolsNext == ConstructWithDefaultTools \/ ConstructWithCallerTools

SpecTools == ToolsInit /\ [][ToolsNext]_vars

(***************************************************************************)
(* _sanitize_for_json.  A Python value is a record: kind is its type, id   *)
(* tells values of one type apart, a list has its items in vals and a dict *)
(* its keys, in order, in keys and their values in vals.  The string of id *)
(* 0 is the placeholder; str(x) of a value that is no scalar is a string   *)
(* whose id is not the id of any string of a payload.                      *)
(***************************************************************************)
Value(kind, id) == [kind |-> kind, id |-> id, keys |-> <<>>, vals |-> <<>>]
List(vals) == [kind |-> "list", id |-> 0, keys |-> <<>>, vals |-> vals]
Dict(keys, vals) == [kind |-> "dict", id |-> 0, keys |-> keys, vals |-> vals]

\* isinstance(data, (int, float, str, bool)) or data is None
ScalarKinds == {"int", "float", "str", "bool", "null"}
OtherKinds == {"bytes", "object"}
BinaryKeys == {"binary_data", "image_data"}

\* "<binary data omitted>"
Placeholder == Value("str", 0)

\* str(data)
Str(data) == Value("str", (IF data.kind = "bytes" THEN 10 ELSE 20) + data.id)

RECURSIVE SanitizeTopLevelOnly(_)
SanitizeTopLevelOnly(data) ==
    IF data.kind = "list"
    THEN List([i \in 1..Len(data.vals) |-> SanitizeTopLevelOnly(data.vals[i])])
    ELSE IF data.kind = "dict"
    THEN Dict(data.keys,
              [i \in 1..Len(data.vals) |->
                  IF data.keys[i] \in BinaryKeys THEN Placeholder
                  ELSE IF data.vals[i].kind \in ScalarKinds \cup {"list", "dict"}
                       THEN data.vals[i] ELSE Str(data.vals[i])])
    ELSE IF data.kind \in ScalarKinds THEN data
    ELSE Str(data)

RECURSIVE sanitize_for_json(_)
sanitize_for_json(data) ==
    IF data.kind = "list"
    THEN List([i \in 1..Len(data.vals) |-> sanitize_for_json(data.vals[i])])
    ELSE IF data.kind = "dict"
    THEN Dict(data.keys,
              [i \in 1..Len(data.vals) |->
                  IF data.keys[i] \in BinaryKeys THEN Placeholder
                  ELSE sanitize_for_json(data.vals[i])])
    ELSE IF data.kind \in ScalarKinds THEN data
    ELSE Str(data)

\* The values of a payload that are no containers
Leaves ==
    {Value("int", 1), Value("float", 1), Value("str", 1), Value("bool", 1),
     Value("null", 0), Value("bytes", 1), Value("object", 1)}

\* The payloads whose containers nest at most n deep
RECURSIVE PayloadsOfDepth(_)
PayloadsOfDepth(n) ==
    IF n = 0 THEN Leaves
    ELSE LET P == PayloadsOfDepth(n - 1)
             Second == {Value("bytes", 1), Value("int", 1)}
         IN  P \cup {List(<<>>), Dict(<<>>, <<>>)}
               \cup {List(<<x>>) : x \in P}
               \cup {List(<<x, y>>) : x \in P, y \in Second}
               \cup {Dict(<<k>>, <<x>>) : k \in BinaryKeys \cup {"text"}, x \in P}
               \cup {Dict(<<k, "text">>, <<x, y>>) : k \in BinaryKeys, x \in P, y \in Second}

Payloads == PayloadsOfDepth(MaxDepth)

(***************************************************************************)
(* SpecSanitize: one engine that has a storage_folder sanitizes one        *)
(* payload for its trajectory.                                             *)
(***************************************************************************)
SanitizeInit ==
    /\ \E data \in Payloads :
         eng = [b \in {TheAgent} |->
                   [NewAgent(TheAgent, 1, "initial_task", MaxSteps, FALSE)
                       EXCEPT !.trajectory =
                          [NewTrajectory("ok") EXCEPT !.payload = <<data>>]]]
    /\ computers = [c \in {1} |-> NewComputer]
    /\ coord = [pc |-> "none"]
    /\ rt = RetryIdle

\* self._sanitize_for_json(items)
SanitizeItems ==
    LET t == eng[TheAgent].trajectory IN
    /\ t.sanitized = <<>>
    /\ eng' = [eng EXCEPT ![TheAgent].trajectory.sanitized =
                                    <<sanitize_for_json(t.payload[1])>>]
    /\ UNCHANGED <<computers, coord, rt>>

SanitizeNext == SanitizeItems

SpecSanitize == SanitizeInit /\ [][SanitizeNext]_vars

(***************************************************************************)
(* SpecTrajectory: the trajectory record of one engine that has a          *)
(* storage_folder, and the events the engine records in it: a request, the *)
(* response to a request, the actions of a response, and actions recorded  *)
(* through _record_in_trajectory.                                          *)
(***************************************************************************)
TrajectoryInit ==
    /\ \E w \in WriteOutcomes :
         eng = [b \in {TheAgent} |->
                   [NewAgent(TheAgent, 1, "initial_task", MaxSteps, FALSE)
                       EXCEPT !.trajectory = NewTrajectory(w)]]
    /\ computers = [c \in {1} |-> NewComputer]
    /\ coord = [pc |-> "none"]
    /\ rt = RetryIdle

Recorded(t) == Len(t.actions) + Len(t.interactions)

LastInteraction(t) ==
    IF t.interactions = <<>> THEN "none" ELSE t.interactions[Len(t.interactions)]

\* self._record_interaction("request", ...) before a provider call
RecordRequest ==
    LET t == eng[TheAgent].trajectory IN
    /\ Recorded(t) < MaxRecords
    /\ \E w \in WriteOutcomes :
         eng' = [eng EXCEPT ![TheAgent].trajectory = record_interaction(t, "request", w)]
    /\ UNCHANGED <<computers, coord, rt>>

\* self._record_interaction("response", ...) when the call has returned
RecordResponse ==
    LET t == eng[TheAgent].trajectory IN
    /\ Recorded(t) < MaxRecords
    /\ LastInteraction(t) = "request"
    /\ \E w \in WriteOutcomes :
         eng' = [eng EXCEPT ![TheAgent].trajectory = record_interaction(t, "response", w)]
    /\ UNCHANGED <<computers, coord, rt>>

\* autonomous_handle_item for a computer_call of the last response
\* in order: the screenshot is captured and written, the action is recorded
\* in the trajectory, the trajectory file is written, and the item goes to
\* Agent.handle_item, which executes the action on the environment.  An
\* exception of the capture, of the screenshot write or of the action leaves
\* the handler at once.
HandleComputerCall ==
    LET a == eng[TheAgent]
        t == a.trajectory
        s == [a.screens EXCEPT !.handled = @ + 1]
        shows == computers[a.computer].actions
    IN
    /\ Recorded(t) < MaxRecords
    /\ a.screens.handled < MaxCalls
    /\ LastInteraction(t) = "response"
    /\ \E shot \in {"ok", "raise"}, sw \in {"ok", "fail"}, w \in WriteOutcomes,
          h \in {"ok", "raise"} :
         IF shot = "raise"
         THEN /\ eng' = [eng EXCEPT ![TheAgent].screens = [s EXCEPT !.last = "raised"]]
              /\ UNCHANGED computers
         ELSE IF sw # "ok"
         THEN /\ eng' = [eng EXCEPT ![TheAgent].screens =
                            [SaveScreenshot(s, shows, sw) EXCEPT !.last = "raised"]]
              /\ UNCHANGED computers
         ELSE LET s1 == SaveScreenshot(s, shows, sw) IN
              /\ eng' = [eng EXCEPT
                            ![TheAgent].screens =
                               [s1 EXCEPT !.last = IF h = "ok" THEN "ok" ELSE "raised"],
                            ![TheAgent].trajectory =
                               RecordHandledAction(t, w, s1.handled, s1.counter - 1)]
              /\ computers' = IF h = "ok"
                              THEN [computers EXCEPT ![a.computer].actions = @ + 1]
                              ELSE computers
    /\ UNCHANGED <<coord, rt>>

\* self._record_in_trajectory(...)
RecordInTrajectory ==
    LET t == eng[TheAgent].trajectory IN
    /\ Recorded(t) < MaxRecords
    /\ \E w \in WriteOutcomes :
         eng' = [eng EXCEPT ![TheAgent].trajectory = record_in_trajectory(t, w)]
    /\ UNCHANGED <<computers, coord, rt>>

TrajectoryNext ==
    \/ RecordRequest
    \/ RecordResponse
    \/ HandleComputerCall
    \/ RecordInTrajectory

SpecTrajectory == TrajectoryInit /\ [][TrajectoryNext]_vars

(***************************************************************************)
(* BranchingAgent                                                          *)
(*   pc of the caller of run_branches:                                     *)
(*     idle      constructed                                               *)
(*     start     in start_agents, before the start of agent number k       *)
(*     wait      waiting for the join (itself, or for the watcher thread)  *)
(*     stopping  in stop_all_agents, before the stop of agent number k     *)
(*     results   in get_results, before the entry of agent number k        *)
(*     returned  run_branches has returned its results                     *)
(*     raised    run_branches has raised error                             *)
(*     rejected  the constructor has raised: there is no coordinator       *)
(*   waiter: the thread inside wait_for_agents_completion                  *)
(*   cleanup: the owner's teardown after run_branches: in cleanup_branches *)
(*     before the release of branch number k ("branches"), before          *)
(*     cleanup_main_computer ("main"), over ("done"), or left by an        *)
(*     exception ("aborted"); caught counts the exceptions caught          *)
(***************************************************************************)
MainComputer == 0

DefaultBranchNames == <<"branch-0", "branch-1", "branch-2", "branch-3">>

\* [f"branch-{i}" for i in range(n)]
BranchNames(n) == [i \in 1..n |-> DefaultBranchNames[i]]

InstructionTexts == <<"instruction-0", "instruction-1", "instruction-2", "instruction-3">>

Instructions(n) == [i \in 1..n |-> InstructionTexts[i]]

\* branch_names: None, or a list of names
NoNames == [given |-> FALSE, names |-> <<>>]
Names(names) == [given |-> TRUE, names |-> names]

\* The branch_names a caller passes for n instructions: none, one name too
\* few, or a name used twice.
BranchNameChoices(n) ==
    {NoNames}
    \cup (IF n >= 1 THEN {Names([i \in 1..(n - 1) |-> DefaultBranchNames[i]])} ELSE {})
    \cup (IF n >= 2 THEN {Names([i \in 1..n |-> "a"])} ELSE {})

IdleWaiter == [pc |-> "none", mode |-> None, idx |-> 0]

\* completion_mode.lower()
Lower(s) ==
    CASE s = "ALL" -> "all"
      [] s = "First" -> "first"
      [] OTHER -> s

\* The completion_mode arguments a caller gives to the constructor
ConstructorModes == {"all", "first", "ALL", "First", "any"}

\* The attributes __init__ assigns
BranchingAgentFields(has_computer, has_callback, max_steps, completion_mode) ==
    [pc |-> "idle",
     main_computer |-> IF has_computer THEN {MainComputer} ELSE {},
     agent_callback |-> has_callback,
     agent_kwargs |-> [max_steps |-> max_steps],
     completion_mode |-> completion_mode,
     original_mode |-> None,
     timeout |-> FALSE,
     branch_instructions |-> <<>>,
     branches |-> <<>>,
     agents |-> <<>>,
     base_snapshot |-> <<>>,
     k |-> 0,
     waiter |-> IdleWaiter,
     results |-> <<>>,
     error |-> None,
     cleanup |-> [pc |-> "branches", k |-> 1, caught |-> 0]]

NewBranchingAgentUnvalidated(has_computer, has_callback, max_steps, completion_mode) ==
    BranchingAgentFields(has_computer, has_callback, max_steps, Lower(completion_mode))

\* BranchingAgent(...): the mode is lowercased, and a mode other than 'all'
\* and 'first' makes the constructor raise: no coordinator exists then
\* (pc = "rejected").
NewBranchingAgent(has_computer, has_callback, max_steps, completion_mode) ==
    LET obj == BranchingAgentFields(has_computer, has_callback, max_steps,
                                    Lower(completion_mode))
    IN  IF obj.completion_mode \notin {"all", "first"}
        THEN [obj EXCEPT !.pc = "rejected", !.error = "completion_mode"]
        ELSE obj

\* branches[branch_name] = branch_computer on a dict kept in insertion order
DictPut(d, key, value) ==
    IF \E i \in 1..Len(d) : d[i].key = key
    THEN [i \in 1..Len(d) |-> IF d[i].key = key THEN [key |-> key, value |-> value]
                                                 ELSE d[i]]
    ELSE Append(d, [key |-> key, value |-> value])

DictGet(d, key) == d[CHOOSE i \in 1..Len(d) : d[i].key = key].value

Keys(d) == [i \in 1..Len(d) |-> d[i].key]

Min(x, y) == IF x < y THEN x ELSE y

\* create_branches: one fork of the snapshot per pair of zip(branch_names,
\* instructions); the i-th fork is computer i.
RECURSIVE ForkLoop(_, _, _, _)
ForkLoop(branch_names, count, i, branches) ==
    IF i > count THEN branches
    ELSE ForkLoop(branch_names, count, i + 1, DictPut(branches, branch_names[i], i))

create_branches(instructions, branch_names) ==
    LET names == IF ~branch_names.given THEN BranchNames(Len(instructions))
                 ELSE branch_names.names
    IN  ForkLoop(names, Min(Len(names), Len(instructions)), 1, <<>>)

\* self.shared_context when run_branches is given no context
DefaultContext == "Execute the branch-specific instruction."

\* f"SHARED CONTEXT: {context}\n\nBRANCH-SPECIFIC INSTRUCTION: {instruction}
\* \n\nWhen you believe you have completed your task, use the 'done' tool ..."
FullInstruction(context, instruction) ==
    [context |-> context, instruction |-> instruction, reminder |-> "done"]

CreateAgentsOnFirstFork(c, branches, instructions) ==
    [b \in {branches[i].key : i \in 1..Len(branches)} |->
        LET i == CHOOSE j \in 1..Len(branches) : branches[j].key = b IN
        NewAgent(b, branches[1].value, FullInstruction(DefaultContext, instructions[i]),
                 c.agent_kwargs.max_steps, c.agent_callback)]

CreateAgentsFirstInstruction(c, branches, instructions) ==
    [b \in {branches[i].key : i \in 1..Len(branches)} |->
        LET i == CHOOSE j \in 1..Len(branches) : branches[j].key = b IN
        NewAgent(b, branches[i].value, FullInstruction(DefaultContext, instructions[1]),
                 c.agent_kwargs.max_steps, c.agent_callback)]

\* create_agents: the engine of the i-th branch id gets the i-th instruction
create_agents(c, branches, instructions) ==
    [b \in {branches[i].key : i \in 1..Len(branches)} |->
        LET i == CHOOSE j \in 1..Len(branches) : branches[j].key = b IN
        NewAgent(b, branches[i].value, FullInstruction(DefaultContext, instructions[i]),
                 c.agent_kwargs.max_steps, c.agent_callback)]

\* The finally clause of run_branches on an exception
RaisedWithoutRestore(c, error) == [c EXCEPT !.pc = "raised", !.error = error]

Raised(c, error) ==
    [c EXCEPT !.pc = "raised", !.error = error, !.completion_mode = c.original_mode]

\* run_branches up to start_agents: the checks, the snapshot, the forks and
\* the engines.  No thread of this call exists before start_agents.
RunBranches ==
    /\ coord.pc = "idle"
    /\ \E n \in 0..MaxBranches, wait_mode \in {None, "first", "any"},
          timeout \in BOOLEAN :
       \E branch_names \in BranchNameChoices(n) :
         LET instructions == Instructions(n)
             c0 == [coord EXCEPT !.original_mode = coord.completion_mode,
                                 !.timeout = timeout]
             c1 == IF wait_mode # None THEN [c0 EXCEPT !.completion_mode = wait_mode]
                   ELSE c0
             snapshot == [actions |-> computers[MainComputer].actions]
             c2 == [c1 EXCEPT !.base_snapshot = <<snapshot>>]
             branches == create_branches(instructions, branch_names)
             forks == Min(IF branch_names.given THEN Len(branch_names.names) ELSE n, n)
             c3 == [c2 EXCEPT !.branch_instructions = instructions,
                              !.branches = branches]
             forked == [i \in 0..forks |-> IF i = 0 THEN computers[MainComputer]
                                           ELSE FromSnapshot(snapshot)]
         IN
         IF wait_mode # None /\ wait_mode \notin {"all", "first"}
         THEN /\ coord' = Raised(c0, "wait_mode")
              /\ UNCHANGED <<eng, computers>>
         ELSE IF c1.main_computer = {}
         THEN /\ coord' = Raised(c1, "no_computer")
              /\ UNCHANGED <<eng, computers>>
         ELSE IF n = 0
         THEN /\ coord' = Raised(c2, "no_instructions")
              /\ UNCHANGED <<eng, computers>>
         ELSE IF Len(branches) = 0
         THEN /\ coord' = Raised(c3, "no_branches")
              /\ computers' = forked
              /\ UNCHANGED eng
         ELSE IF Len(instructions) # Len(branches)
         THEN /\ coord' = Raised(c3, "count_mismatch")
              /\ computers' = forked
              /\ UNCHANGED eng
         ELSE /\ eng' = create_agents(c3, branches, instructions)
              /\ computers' = forked
              /\ coord' = [c3 EXCEPT !.agents = Keys(branches), !.pc = "start", !.k = 1]
    /\ UNCHANGED rt

\* start_agents: agent.start(blocking=False) for the k-th agent; after the
\* last one the caller goes on to wait_for_agents_completion.
StartAgents ==
    /\ coord.pc = "start"
    /\ eng' = [eng EXCEPT ![coord.agents[coord.k]] = start(@)]
    /\ coord' = IF coord.k < Len(coord.agents)
                THEN [coord EXCEPT !.k = coord.k + 1]
                ELSE [coord EXCEPT !.pc = "wait", !.k = 0,
                                   !.waiter = [pc |-> "scan",
                                               mode |-> coord.completion_mode,
                                               idx |-> 1]]
    /\ UNCHANGED <<computers, rt>>

\* wait_for_agents_completion: one read of agent.running in the for loop
\*   all:   a running agent -> sleep and scan again; none running -> return
\*   first: an agent not running -> return; all running -> sleep, scan again
WaitAllReturnsOnFirst(w, is_running, last) ==
    IF is_running
    THEN (IF last THEN [w EXCEPT !.idx = 1] ELSE [w EXCEPT !.idx = w.idx + 1])
    ELSE [w EXCEPT !.pc = "returned"]

WaitFirstReturnsAnyway(w, is_running, last) == [w EXCEPT !.pc = "returned"]

WaitAll(w, is_running, last) ==
    IF is_running THEN [w EXCEPT !.idx = 1]
    ELSE IF last THEN [w EXCEPT !.pc = "returned"]
    ELSE [w EXCEPT !.idx = w.idx + 1]

WaitFirst(w, is_running, last) ==
    IF ~is_running THEN [w EXCEPT !.pc = "returned"]
    ELSE IF last THEN [w EXCEPT !.idx = 1]
    ELSE [w EXCEPT !.idx = w.idx + 1]

WaitScan ==
    /\ coord.waiter.pc = "scan"
    /\ LET w == coord.waiter
           is_running == eng[coord.agents[w.idx]].running
           last == w.idx = Len(coord.agents)
       IN  coord' = [coord EXCEPT !.waiter =
                        IF w.mode = "all" THEN WaitAll(w, is_running, last)
                        ELSE WaitFirst(w, is_running, last)]
    /\ UNCHANGED <<eng, computers, rt>>

\* The join has returned (in the caller, or the watcher has set the event)
WaitReturned ==
    /\ coord.pc = "wait"
    /\ coord.waiter.pc = "returned"
    /\ coord' = [coord EXCEPT !.pc = "results", !.k = 1]
    /\ UNCHANGED <<eng, computers, rt>>

\* completion_event.wait(timeout) has timed out: stop_all_agents
Timeout ==
    /\ coord.pc = "wait"
    /\ coord.timeout
    /\ coord.waiter.pc # "returned"
    /\ coord' = [coord EXCEPT !.pc = "stopping", !.k = 1]
    /\ UNCHANGED <<eng, computers, rt>>

\* stop_all_agents: agent.stop() for the k-th agent
StopOnlyFirstAgent ==
    /\ coord.pc = "stopping"
    /\ eng' = [eng EXCEPT ![coord.agents[1]] = stop(@)]
    /\ coord' = [coord EXCEPT !.pc = "results", !.k = 1]
    /\ UNCHANGED <<computers, rt>>

StopAllAgents ==
    /\ coord.pc = "stopping"
    /\ eng' = [eng EXCEPT ![coord.agents[coord.k]] = stop(@)]
    /\ coord' = IF coord.k < Len(coord.agents)
                THEN [coord EXCEPT !.k = coord.k + 1]
                ELSE [coord EXCEPT !.pc = "results", !.k = 1]
    /\ UNCHANGED <<computers, rt>>

\* get_results: the entry of one agent
ResultWithoutErroredBranches(branch_id, agent) ==
    IF agent.exit \in {"error", "crashed"} THEN <<>>
    ELSE <<[branch_id |-> branch_id,
            status |-> IF ~agent.running THEN "completed" ELSE "running",
            steps |-> agent.steps_taken,
            output |-> agent.last_response]>>

Result(branch_id, agent) ==
    <<[branch_id |-> branch_id,
       status |-> IF ~agent.running THEN "completed" ELSE "running",
       steps |-> agent.steps_taken,
       output |-> agent.last_response]>>

\* get_results for the k-th agent; after the last one run_branches returns
\* and its finally clause restores completion_mode.
GetResults ==
    /\ coord.pc = "results"
    /\ LET b == coord.agents[coord.k]
           c1 == [coord EXCEPT !.results = @ \o Result(b, eng[b])]
       IN  coord' = IF coord.k < Len(coord.agents)
                    THEN [c1 EXCEPT !.k = coord.k + 1]
                    ELSE [c1 EXCEPT !.pc = "returned", !.k = 0,
                                    !.completion_mode = coord.original_mode]
    /\ UNCHANGED <<eng, computers, rt>>

\* branch.__exit__(None, None, None) returns or raises
ReleaseOutcomes == {"ok", "raise"}

CleanupBranchesAbortsOnError ==
    /\ coord.pc \in {"returned", "raised"}
    /\ coord.cleanup.pc = "branches"
    /\ LET cl == coord.cleanup IN
       IF cl.k > Len(coord.branches)
       THEN /\ coord' = [coord EXCEPT !.cleanup.pc = "main"]
            /\ UNCHANGED computers
       ELSE \E out \in ReleaseOutcomes :
              /\ computers' = [computers EXCEPT ![coord.branches[cl.k].value].released = @ + 1]
              /\ coord' = IF out = "raise" THEN [coord EXCEPT !.cleanup.pc = "aborted"]
                          ELSE [coord EXCEPT !.cleanup.k = cl.k + 1]
    /\ UNCHANGED <<eng, rt>>

\* cleanup_branches, called by the owner after run_branches: one pass of its
\* for loop over self.branches, the exception of __exit__ caught; after the
\* last branch it returns.
CleanupBranches ==
    /\ coord.pc \in {"returned", "raised"}
    /\ coord.cleanup.pc = "branches"
    /\ LET cl == coord.cleanup IN
       IF cl.k > Len(coord.branches)
       THEN /\ coord' = [coord EXCEPT !.cleanup.pc = "main"]
            /\ UNCHANGED computers
       ELSE \E out \in ReleaseOutcomes :
              /\ computers' = [computers EXCEPT ![coord.branches[cl.k].value].released = @ + 1]
              /\ coord' = [coord EXCEPT !.cleanup.k = cl.k + 1,
                                        !.cleanup.caught =
                                            IF out = "raise" THEN @ + 1 ELSE @]
    /\ UNCHANGED <<eng, rt>>

\* cleanup_main_computer: __exit__ of the main computer if there is one, its
\* exception caught
CleanupMainComputer ==
    /\ coord.cleanup.pc = "main"
    /\ \E out \in ReleaseOutcomes :
         IF coord.main_computer = {}
         THEN /\ coord' = [coord EXCEPT !.cleanup.pc = "done"]
              /\ UNCHANGED computers
         ELSE /\ computers' = [computers EXCEPT ![MainComputer].released = @ + 1]
              /\ coord' = [coord EXCEPT !.cleanup.pc = "done",
                                        !.cleanup.caught =
                                            IF out = "raise" THEN @ + 1 ELSE @]
    /\ UNCHANGED <<eng, rt>>

(***************************************************************************)
(* Spec: a coordinator, one call of run_branches, and the engines it       *)
(* starts, each on its own thread.                                         *)
(***************************************************************************)
Init ==
    /\ \E has_computer \in BOOLEAN, completion_mode \in ConstructorModes :
         coord = NewBranchingAgent(has_computer, TRUE, MaxSteps, completion_mode)
    /\ eng = <<>>
    /\ computers = [c \in {MainComputer} |-> NewComputer]
    /\ rt = RetryIdle

\* The steps of the engines' threads
BranchInitialTurn == \E e \in DOMAIN eng : InitialTurn(e, BranchResponseKinds)
BranchContinuationTurn == \E e \in DOMAIN eng : ContinuationTurn(e, BranchResponseKinds)
BranchProcessItem == \E e \in DOMAIN eng : ProcessItem(e)
BranchFinishTurn == \E e \in DOMAIN eng : FinishTurn(e)
BranchLoopExit == \E e \in DOMAIN eng : LoopExit(e)

Next ==
    \/ RunBranches
    \/ StartAgents
    \/ WaitScan
    \/ WaitReturned
    \/ Timeout
    \/ StopAllAgents
    \/ GetResults
    \/ BranchInitialTurn
    \/ BranchContinuationTurn
    \/ BranchProcessItem
    \/ BranchFinishTurn
    \/ BranchLoopExit

Spec == Init /\ [][Next]_vars

(***************************************************************************)
(* SpecStorage: a coordinator whose agent_kwargs hold a storage_folder, one*)
(* call of run_branches with branch names chosen by the caller, and the    *)
(* writes of the engines' threads under that folder.  A branch id is a     *)
(* Python value: kind is its type and text what str() makes of it.         *)
(* coord.files holds the writes made, each with its path and its writer.   *)
(***************************************************************************)
StorageIds ==
    {[kind |-> "str", text |-> "1"], [kind |-> "int", text |-> "1"],
     [kind |-> "str", text |-> "2"]}

\* str(self.branch_id)
StrOfId(branch_id) == branch_id.text

\* os.path.join(self.storage_folder, str(self.branch_id))
BranchFolder(storage_folder, branch_id) == <<storage_folder, StrOfId(branch_id)>>

\* os.path.join(self.storage_folder, "trajectory.json")
TrajectoryFile(folder) == folder \o <<"trajectory.json">>

\* os.path.join(self.screenshots_folder, f"screenshot_{n}.png")
ScreenshotFile(folder, n) == folder \o <<"screenshots", n>>

StorageRoot == "storage"

StorageInit ==
    /\ coord = [pc |-> "idle", branches |-> <<>>, files |-> <<>>]
    /\ eng = <<>>
    /\ computers = [c \in {MainComputer} |-> NewComputer]
    /\ rt = RetryIdle

\* run_branches(instructions, branch_names=names) up to start_agents
StorageRunBranches ==
    /\ coord.pc = "idle"
    /\ \E n \in 1..MaxBranches :
       \E names \in [1..n -> StorageIds] :
         LET instructions == Instructions(n)
             branches == create_branches(instructions, Names(names))
         IN  IF Len(instructions) # Len(branches)
             THEN /\ coord' = [coord EXCEPT !.pc = "raised", !.branches = branches]
                  /\ UNCHANGED eng
             ELSE /\ coord' = [coord EXCEPT !.pc = "started", !.branches = branches]
                  /\ eng' = [b \in {branches[i].key : i \in 1..Len(branches)} |->
                               [start(create_agents([agent_kwargs |-> [max_steps |-> MaxSteps],
                                                     agent_callback |-> FALSE],
                                                    branches, instructions)[b])
                                   EXCEPT !.trajectory = NewTrajectory("ok")]]
    /\ UNCHANGED <<computers, rt>>

\* The thread of engine e writes its trajectory file
EngineWritesTrajectory ==
    \E e \in DOMAIN eng :
       /\ coord.pc = "started"
       /\ Len(eng[e].trajectory.flushes) < MaxCalls
       /\ eng' = [eng EXCEPT ![e].trajectory =
                     save_trajectory_file(@, "ok", "interaction")]
       /\ coord' = [coord EXCEPT !.files =
                       Append(@, [path |-> TrajectoryFile(BranchFolder(StorageRoot, e)),
                                  writer |-> e])]
       /\ UNCHANGED <<computers, rt>>

\* The thread of engine e writes a screenshot file
EngineWritesScreenshot ==
    \E e \in DOMAIN eng :
       /\ coord.pc = "started"
       /\ eng[e].screens.handled < MaxCalls - 1
       /\ eng' = [eng EXCEPT ![e].screens =
                     SaveScreenshot([@ EXCEPT !.handled = @ + 1], 0, "ok")]
       /\ coord' = [coord EXCEPT !.files =
                       Append(@, [path |-> ScreenshotFile(BranchFolder(StorageRoot, e),
                                                          eng[e].screens.counter),
                                  writer |-> e])]
       /\ UNCHANGED <<computers, rt>>

StorageNext ==
    \/ StorageRunBranches
    \/ EngineWritesTrajectory
    \/ EngineWritesScreenshot

SpecStorage == StorageInit /\ [][StorageNext]_vars

\* SpecCleanup: the same, and the owner's teardown once run_branches is over
\* and the threads of the engines have ended.
ThreadsEnded == \A e \in DOMAIN eng : eng[e].pc \in {"idle", "ended"}

TeardownBranches == ThreadsEnded /\ CleanupBranches

TeardownMainComputer == ThreadsEnded /\ CleanupMainComputer

CleanupNext == Next \/ TeardownBranches \/ TeardownMainComputer

SpecCleanup == Init /\ [][CleanupNext]_vars

\* The caller of run_branches is not held up by anything once its wait has
\* timed out: stop() joins for at most 1 s, get_results waits for nothing.
SpecTimeout == Spec /\ WF_vars(StopAllAgents) /\ WF_vars(GetResults)

(***************************************************************************)
(* SpecRetry: the retry policy alone                                       *)
(***************************************************************************)
RetrySpecInit ==
    /\ RetryInit
    /\ eng = <<>>
    /\ computers = <<>>
    /\ coord = [pc |-> "none"]

RetryNext == RetryCall \/ RetryReturn

SpecRetry == RetrySpecInit /\ [][RetryNext]_vars

(***************************************************************************)
(* Properties of the retry policy (SpecRetry)                              *)
(***************************************************************************)
AlwaysRaises(func) == \A n \in DOMAIN func : func[n] = "err"

\* The invocation on which func first returns, 0 when it never does
FirstSuccess(func) ==
    IF AlwaysRaises(func) THEN 0
    ELSE CHOOSE k \in DOMAIN func :
            func[k] = "ok" /\ \A n \in 1..(k - 1) : func[n] = "err"

C10_RetrySuccess ==
    (/\ rt.state = "called"
     /\ FirstSuccess(rt.func) >= 1
     /\ FirstSuccess(rt.func) <= rt.max_retries) =>
        /\ rt.out.status = "returned"
        /\ rt.out.value = FirstSuccess(rt.func)
        /\ rt.out.calls = FirstSuccess(rt.func)
        /\ Len(rt.out.sleeps) = FirstSuccess(rt.func) - 1

C10_Witness ==
    /\ rt.state = "called"
    /\ FirstSuccess(rt.func) = MaxRetriesBound
    /\ rt.max_retries = MaxRetriesBound
    /\ rt.out.status = "returned"
    /\ rt.out.calls = MaxRetriesBound
    /\ Len(rt.out.sleeps) = MaxRetriesBound - 1

RECURSIVE SumSlept(_, _)
SumSlept(sleeps, j) == IF j = 0 THEN 0 ELSE sleeps[j].slept + SumSlept(sleeps, j - 1)

RECURSIVE SumDelays(_, _)
SumDelays(initial_delay, k) ==
    IF k < 0 THEN 0 ELSE initial_delay * 2^k + SumDelays(initial_delay, k - 1)

\* C11: the delay of the j-th sleep is initial_delay * 2^(j-1), the time slept
\* lies between that delay and 1.1 times it, and on an operation that always
\* raises the total slept is at least the sum of initial_delay * 2^k for
\* k = 0 .. max_retries - 2.
C11_BackoffSchedule ==
    rt.state = "called" =>
        /\ \A j \in 1..Len(rt.out.sleeps) :
             /\ rt.out.sleeps[j].delay = DefaultInitialDelay * 2^(j - 1)
             /\ rt.out.sleeps[j].delay <= rt.out.sleeps[j].slept
             /\ 10 * rt.out.sleeps[j].slept <= 11 * rt.out.sleeps[j].delay
        /\ AlwaysRaises(rt.func) =>
             SumSlept(rt.out.sleeps, Len(rt.out.sleeps))
                >= SumDelays(DefaultInitialDelay, rt.max_retries - 2)

C11_Witness ==
    /\ rt.state = "called"
    /\ AlwaysRaises(rt.func)
    /\ rt.max_retries = MaxRetriesBound
    /\ Len(rt.out.sleeps) = MaxRetriesBound - 1
    /\ rt.out.sleeps[2].delay = 2 * DefaultInitialDelay
    /\ rt.out.sleeps[2].slept > rt.out.sleeps[2].delay
    /\ SumSlept(rt.out.sleeps, 2) > SumDelays(DefaultInitialDelay, 1)

(***************************************************************************)
(* Properties of one engine run (SpecEngine)                               *)
(***************************************************************************)
OutputsFor(items, call_id) ==
    {j \in 1..Len(items) :
        items[j].type = "function_call_output" /\ items[j].call_id = call_id}

Paired(items) ==
    \A i \in 1..Len(items) :
        items[i].type = "function_call" =>
            Cardinality(OutputsFor(items, items[i].call_id)) = 1

\* The next thing the thread does is to issue a request, or the loop has
\* ended after a completed turn.
AtRequestOrEnd(a) ==
    \/ a.pc \in {"initial", "loop"}
    \/ a.pc = "ended" /\ a.exit = "exited"

\* C1: whenever a model request is about to be issued, and when the run has
\* ended after a completed turn, every function call of the conversation, a
\* 'done' call included, has exactly one function_call_output with its call id.
C1_PairingInvariant ==
    \A e \in DOMAIN eng :
        /\ AtRequestOrEnd(eng[e]) => Paired(eng[e].items)
        /\ Paired(eng[e].conversation)

C1_Witness ==
    \E e \in DOMAIN eng :
        LET a == eng[e] IN
        /\ a.pc = "ended" /\ a.exit = "exited"
        /\ a.steps_taken = 2
        /\ \E i \in 1..Len(a.items) : IsDoneCall(a.items[i])
        /\ \E i \in 1..Len(a.items) :
              a.items[i].type = "function_call" /\ ~IsDoneCall(a.items[i])

\* The loop ended at its while condition, with no 'done' call, no failure of
\* the provider or of a turn, and no stop() request.
RanToStepBound(a) ==
    /\ a.exit \notin {"error", "crashed", "no_output"}
    /\ ~a.done_seen
    /\ ~a.stop_called

\* C2 as stated: for every max_steps = N >= 0, without 'done', failure or
\* stop(), steps_taken never exceeds N and the run ends with steps_taken = N
\* and running = false.
C2_StepBoundAsStated ==
    \A e \in DOMAIN eng :
        LET a == eng[e] IN
        RanToStepBound(a) =>
            /\ a.steps_taken <= a.max_steps
            /\ a.pc = "ended" => (a.steps_taken = a.max_steps /\ ~a.running)

\* The number of requests issued so far in this run: every request follows
\* the append of one user message.
Turn(a) == Cardinality({i \in 1..Len(a.items) : a.items[i].role = "user"})

HasDone(response) == \E i \in 1..Len(response) : IsDoneCall(response[i])

\* C3 as stated: a response with a 'done' call in step k ends the run with
\* steps_taken = k and running = false.
C3_DoneEndsAtStepAsStated ==
    \A e \in DOMAIN eng :
        LET a == eng[e] IN
        (a.pc = "ended" /\ HasDone(a.response)) =>
            (a.steps_taken = Turn(a) /\ ~a.running)

\* C3 amended: after a response with a 'done' call in step k no continuation
\* prompt is appended and no request is issued, whatever max_steps is; the run
\* ends with steps_taken = k and running = false when every item of the
\* response was processed, and with steps_taken = k - 1 (the step is not
\* counted) when the processing of an item raised.
C3_EndState ==
    \A e \in DOMAIN eng :
        LET a == eng[e] IN
        (a.pc = "ended" /\ HasDone(a.response)) =>
            IF a.idx > Len(a.response)
            THEN a.steps_taken = Turn(a) /\ ~a.running
            ELSE a.steps_taken = Turn(a) - 1

C3_NoRequestAfterDone ==
    \A e \in DOMAIN eng :
        (e \in DOMAIN eng' /\ HasDone(eng[e].response)) =>
            Turn(eng'[e]) = Turn(eng[e])

\* C3 (as amended): a response holding a 'done' call ends the run: the run
\* ends not running with steps_taken = k when every item was processed and
\* k - 1 when processing an item raised, and no request follows that response.
C3_DoneShortCircuit == [](C3_EndState) /\ [][C3_NoRequestAfterDone]_vars

C3_Witness ==
    \E e \in DOMAIN eng :
        LET a == eng[e] IN
        /\ a.pc = "ended" /\ a.exit = "exited"
        /\ a.done_seen
        /\ a.steps_taken = 1
        /\ a.max_steps = MaxSteps

\* The action of the last invocation of the callback, "none" before the first
LastCallback(a) ==
    IF a.callbacks = <<>> THEN "none" ELSE a.callbacks[Len(a.callbacks)].action

\* C12 as stated: when an exception is raised during a turn, the callback (if
\* one was given) is invoked with action 'error', running becomes false and
\* the failed turn is not counted in steps_taken.
C12_TurnErrorAsStated ==
    \A e \in DOMAIN eng :
        LET a == eng[e] IN
        (a.pc = "ended" /\ a.exit \in {"error", "crashed"}) =>
            /\ a.has_callback => LastCallback(a) = "error"
            /\ ~a.running
            /\ a.steps_taken = Turn(a) - 1

\* C13 as stated: when a response has no 'output' field the run ends with
\* running = false and the failure is reported through the callback with the
\* action 'error'.
C13_NoOutputAsStated ==
    \A e \in DOMAIN eng :
        LET a == eng[e] IN
        (a.pc = "ended" /\ a.exit = "no_output") =>
            /\ ~a.running
            /\ a.has_callback => LastCallback(a) = "error"

\* The turn's response is a single 'done' call whose arguments cannot be
\* parsed or carry no reason, and the for loop over the response is over.
MalformedDoneTurn(a) ==
    /\ Len(a.response) = 1
    /\ IsDoneCall(a.response[1])
    /\ a.response[1].args \in {"malformed", "noreason"}
    /\ a.pc \in {"finish", "loop", "ended"}

\* C14 as stated: a 'done' call with unparsable arguments or without a reason
\* is acknowledged with the default reason 'Task completed', the step is
\* counted and the run ends as a completion; the turn raises nothing, so an
\* 'error' callback can only follow the step's own callback.
C14_MalformedDoneAsStated ==
    \A e \in DOMAIN eng :
        LET a == eng[e] IN
        MalformedDoneTurn(a) =>
            /\ a.done_seen
            /\ \E i \in 1..Len(a.items) :
                  /\ a.items[i].type = "function_call_output"
                  /\ a.items[i].call_id = a.response[1].call_id
                  /\ a.items[i].args = "Task completed"
            /\ a.pc \in {"loop", "ended"} => a.steps_taken = Turn(a)
            /\ \A k \in 1..Len(a.callbacks) :
                  a.callbacks[k].action = "error" =>
                      k > 1 /\ a.callbacks[k - 1].action # "error"

\* C15: start() on an engine whose running flag is true returns None and
\* changes nothing else of the engine: steps_taken, conversation,
\* last_response, the thread handle and the position of its thread are as
\* before; no step creates a thread for an engine whose flag is set.
C15_StartOnRunning ==
    \A e \in DOMAIN eng :
        eng[e].running =>
            /\ eng'[e].thread = eng[e].thread
            /\ eng'[e].start_returned # eng[e].start_returned =>
                  /\ eng'[e].start_returned = "None"
                  /\ eng'[e] = [eng[e] EXCEPT !.start_returned = "None"]

C15_StartGuard == [][C15_StartOnRunning]_vars

C15_Witness ==
    LET a == eng[TheAgent] IN
    /\ a.start_returned = "None"
    /\ a.thread = 1
    /\ a.pc = "ended" /\ a.exit = "exited"
    /\ a.steps_taken = MaxSteps

\* C16: stop() writes the running flag only; once it was called the flag
\* stays false, the engine completes at most one more turn (steps_taken grows
\* by at most 1) and its loop ends with the flag still false.
C16_StopWritesFlagOnly ==
    \A e \in DOMAIN eng :
        (~eng[e].stop_called /\ eng'[e].stop_called) =>
            eng'[e] = [eng[e] EXCEPT !.running = FALSE, !.stop_called = TRUE,
                                     !.steps_at_stop = eng[e].steps_taken]

C16_AfterStop ==
    \A e \in DOMAIN eng :
        eng[e].stop_called =>
            /\ ~eng[e].running
            /\ eng[e].steps_taken <= eng[e].steps_at_stop + 1

C16_CooperativeStop == [](C16_AfterStop) /\ [][C16_StopWritesFlagOnly]_vars

C16_Witness ==
    LET a == eng[TheAgent] IN
    /\ a.stop_called
    /\ a.pc = "ended" /\ a.exit = "exited"
    /\ ~a.done_seen
    /\ a.steps_taken = a.steps_at_stop + 1
    /\ a.steps_taken < a.max_steps

(***************************************************************************)
(* Properties of the coordinator and its engines (Spec)                    *)
(***************************************************************************)
Agents == DOMAIN eng

\* wait_for_agents_completion returns in this step
WaitReturns == coord.waiter.pc = "scan" /\ coord'.waiter.pc = "returned"

\* C4: under completion_mode 'all', wait_for_agents_completion returns only
\* in a state where the running flag of every engine is false.
C4_AllReturn == (WaitReturns /\ coord.waiter.mode = "all") =>
                    \A e \in DOMAIN eng' : ~eng'[e].running

\* C4: in completion mode 'all' the wait returns only when every engine of the
\* run has stopped running.
C4_JoinAll == [][C4_AllReturn]_vars

C4_Witness ==
    /\ coord.waiter.mode = "all"
    /\ coord.waiter.pc = "returned"
    /\ Len(coord.agents) = MaxBranches
    /\ \E e1, e2 \in Agents :
         /\ eng[e1].steps_taken = 1 /\ eng[e1].done_seen
         /\ eng[e2].steps_taken = MaxSteps /\ ~eng[e2].done_seen

\* C5: under completion_mode 'first', wait_for_agents_completion returns only
\* when the running flag of some engine is false, it returns at the first
\* engine it finds not running, and it stops no engine: no step of it changes
\* an engine, and without a timeout stop() is never called.
C5_FirstReturn == (WaitReturns /\ coord.waiter.mode = "first") =>
                      \E e \in DOMAIN eng' : ~eng'[e].running

C5_ReturnsAtFirstFinished ==
    (/\ coord.waiter.pc = "scan" /\ coord.waiter.mode = "first"
     /\ coord'.waiter # coord.waiter
     /\ ~eng[coord.agents[coord.waiter.idx]].running) =>
        coord'.waiter.pc = "returned"

C5_WaitLeavesEngines ==
    (coord.waiter.mode = "first" /\ coord'.waiter # coord.waiter) => eng' = eng

C5_NoStop ==
    (coord.waiter.mode = "first" /\ ~coord.timeout) =>
        \A e \in Agents : ~eng[e].stop_called

\* C5: in completion mode 'first' the wait returns at the first engine found
\* not running, leaves every engine as it is, and without a timeout no engine
\* is asked to stop.
C5_JoinFirst ==
    /\ [](C5_NoStop)
    /\ [][C5_FirstReturn /\ C5_ReturnsAtFirstFinished /\ C5_WaitLeavesEngines]_vars

C5_Witness ==
    /\ coord.waiter.mode = "first"
    /\ coord.pc = "returned"
    /\ \E e1, e2 \in Agents :
         /\ ~eng[e1].running /\ eng[e1].pc = "ended"
         /\ eng[e2].running /\ eng[e2].pc = "process" /\ eng[e2].steps_taken = 1

\* An exception ends the loop of engine e in this step
Fails(e) ==
    /\ e \in DOMAIN eng /\ e \in DOMAIN eng'
    /\ eng[e].pc # "ended"
    /\ eng'[e].pc = "ended" /\ eng'[e].exit \in {"error", "crashed"}

\* C6: an exception in a turn of one engine ends that engine only: the step
\* changes no field of another engine (running, steps_taken, conversation,
\* thread position) and no other engine's environment.
C6_FailureIsLocal ==
    \A e \in DOMAIN eng :
        Fails(e) =>
            \A o \in DOMAIN eng \ {e} :
                /\ eng'[o] = eng[o]
                /\ computers'[eng[o].computer] = computers[eng[o].computer]

\* C6: a failure in one branch's engine changes neither another engine nor
\* another engine's computer.
C6_FaultIsolation == [][C6_FailureIsLocal]_vars

C6_Witness ==
    \E e, o \in Agents :
        /\ e # o
        /\ eng[e].pc = "ended" /\ eng[e].exit = "error" /\ eng[e].steps_taken = 1
        /\ eng[o].pc = "process" /\ eng[o].turn = "continuation" /\ eng[o].running
        /\ computers[eng[o].computer].actions = 1

\* completion_event.wait(timeout) has timed out in this call
TimedOut == coord.pc = "stopping"

Returned == coord.pc = "returned"

C17_StoppedAtReturn ==
    (Returned /\ \E e \in Agents : eng[e].stop_called) =>
        /\ \A e \in Agents : eng[e].stop_called /\ ~eng[e].running
        /\ Len(coord.results) = Len(coord.agents)

C18_ModeAtExit ==
    coord.pc \in {"returned", "raised"} => coord.completion_mode = coord.original_mode

\* original_mode holds the completion_mode of the moment run_branches was
\* entered, and a call that raises at once leaves completion_mode as it was.
C18_EntryValueKept ==
    /\ coord.pc = "idle" =>
          /\ coord'.original_mode = coord.completion_mode
          /\ coord'.pc = "raised" => coord'.completion_mode = coord.completion_mode
    /\ coord.pc # "idle" => coord'.original_mode = coord.original_mode

\* C18: on every exit of run_branches, by return, after a timeout or by an
\* exception, completion_mode has the value it had when run_branches was
\* entered, also when wait_mode replaced it during the call.
C18_ModeRestored == [](C18_ModeAtExit) /\ [][C18_EntryValueKept]_vars

C18_Witness ==
    /\ coord.pc = "returned"
    /\ coord.waiter.mode = "first"
    /\ coord.completion_mode = "all"
    /\ \E e \in Agents : eng[e].stop_called

\* The forked environments that exist
Forks == DOMAIN computers \ {MainComputer}

\* C7: the results run_branches returns hold exactly one entry, with a
\* status, a step count and an output, for every branch created in the call.
C7_ResultForEveryBranch ==
    coord.pc = "returned" =>
        /\ Len(coord.results) = Cardinality(Forks)
        /\ Len(coord.results) = Len(coord.branches)
        /\ \A i \in 1..Len(coord.branches) :
             /\ coord.results[i].branch_id = coord.branches[i].key
             /\ coord.results[i].status \in {"completed", "running"}
             /\ coord.results[i].steps \in 0..MaxSteps
             /\ coord.results[i].output \in Nat
        /\ \A i, j \in 1..Len(coord.results) :
             coord.results[i].branch_id = coord.results[j].branch_id => i = j

C7_Witness ==
    /\ coord.pc = "returned"
    /\ Len(coord.results) = MaxBranches
    /\ \E e \in Agents : eng[e].exit = "error"
    /\ \E i \in 1..Len(coord.results) : coord.results[i].status = "running"

\* The engine of entry i had ended on an exception when its entry was built
\* (its flag was already false, and neither 'done' nor stop() had cleared it).
ReportedAfterError(i) ==
    LET a == eng[coord.results[i].branch_id] IN
    /\ a.exit = "error" /\ ~a.done_seen /\ ~a.stop_called
    /\ coord.results[i].status # "running"

\* The engine of entry i had completed by a 'done' call when its entry was built
ReportedAfterDone(i) ==
    LET a == eng[coord.results[i].branch_id] IN
    /\ a.exit = "exited" /\ a.done_seen
    /\ coord.results[i].status # "running"

\* C8 as stated: the status reported for a branch whose engine ended on an
\* exception differs from the status of a branch that completed by 'done'.
C8_ErroredStatusAsStated ==
    coord.pc = "returned" =>
        \A i, j \in 1..Len(coord.results) :
            (ReportedAfterError(i) /\ ReportedAfterDone(j)) =>
                coord.results[i].status # coord.results[j].status

\* C19 as stated: when run_branches raises a configuration error, the call
\* has created no forked environment, no engine and no thread.
C19_ErrorsBeforeCreationAsStated ==
    coord.pc = "raised" =>
        /\ Forks = {}
        /\ Agents = {}

\* C20 as stated: create_branches either fails, and then has forked nothing,
\* or it returns a mapping with one forked environment per instruction.
C20_OneForkPerInstructionAsStated ==
    coord.branch_instructions # <<>> =>
        \/ coord.branches = <<>> /\ Forks = {}
        \/ /\ Len(coord.branches) = Len(coord.branch_instructions)
           /\ Cardinality(Forks) = Len(coord.branch_instructions)

\* C21: the constructor raises for every completion_mode that is not 'all' or
\* 'first' after lowercasing, so the completion_mode of a constructed
\* coordinator is 'all' or 'first' in every state, also while a wait_mode
\* replaces it in run_branches and after run_branches has ended.
C21_ModeValid ==
    /\ coord.pc # "rejected" => coord.completion_mode \in {"all", "first"}
    /\ coord.pc = "rejected" =>
          /\ coord.completion_mode \notin {"all", "first"}
          /\ coord.error = "completion_mode"

C21_Witness ==
    /\ coord.pc = "wait"
    /\ coord.original_mode = "all"
    /\ coord.completion_mode = "first"
    /\ \E e \in Agents : eng[e].pc = "ended"

\* The calls of __exit__ on the environment of the i-th entry of self.branches
Released(i) == computers[coord.branches[i].value].released

\* C22: cleanup_branches calls __exit__ once on the environment of every
\* entry of self.branches, whether or not an earlier __exit__ raised, and
\* neither cleanup_branches nor cleanup_main_computer is left by an exception.
C22_BestEffortCleanup ==
    /\ coord.cleanup.pc # "aborted"
    /\ \A i \in 1..Len(coord.branches) :
          Released(i) = IF coord.cleanup.pc = "branches" /\ i >= coord.cleanup.k
                        THEN 0 ELSE 1
    /\ computers[MainComputer].released =
          IF coord.cleanup.pc = "done" /\ coord.main_computer # {} THEN 1 ELSE 0

C22_Witness ==
    /\ coord.cleanup.pc = "done"
    /\ Len(coord.branches) = MaxBranches
    /\ coord.cleanup.caught = 1
    /\ \A i \in 1..Len(coord.branches) : Released(i) = 1
    /\ computers[MainComputer].released = 1

\* The writes of a trajectory that an action caused
ActionFlushes(t) == {i \in 1..Len(t.flushes) : t.flushes[i].cause = "action"}

\* C23 as stated: a write because of an action happens exactly when the
\* number of recorded actions becomes a multiple of 5, however the action was
\* recorded, so n recorded actions have caused n div 5 writes.
C23_ActionFlushCadenceAsStated ==
    \A e \in DOMAIN eng :
        LET t == eng[e].trajectory IN
        /\ \A i \in ActionFlushes(t) : t.flushes[i].actions % 5 = 0
        /\ Cardinality(ActionFlushes(t)) = Len(t.actions) \div 5

\* The writes of a trajectory that recording an interaction caused
InteractionFlushes(t) == {i \in 1..Len(t.flushes) : t.flushes[i].cause = "interaction"}

AllWritesSucceeded(t) == \A i \in 1..Len(t.flushes) : t.flushes[i].ok

InMemory(t) == [valid |-> TRUE, actions |-> t.actions, interactions |-> t.interactions]

\* A step that records an interaction
RecordsInteraction(e) ==
    Len(eng'[e].trajectory.interactions) = Len(eng[e].trajectory.interactions) + 1

\* C24 (cadence): a step that records an interaction writes the trajectory
\* exactly when the interaction is a response or the number of recorded
\* interactions has become even; when the write of a recorded response
\* succeeds, the file equals the record in memory.
C24_InteractionFlushCadence ==
    [][\A e \in DOMAIN eng :
          RecordsInteraction(e) =>
             LET t == eng[e].trajectory
                 u == eng'[e].trajectory
                 written == Len(u.flushes) = Len(t.flushes) + 1
             IN  /\ Len(u.flushes) \in {Len(t.flushes), Len(t.flushes) + 1}
                 /\ written <=> (LastInteraction(u) = "response"
                                    \/ Len(u.interactions) % 2 = 0)
                 /\ written => u.flushes[Len(u.flushes)].cause = "interaction"
                 /\ (LastInteraction(u) = "response" /\ u.flushes[Len(u.flushes)].ok)
                       => u.file = InMemory(u)]_vars

\* C24 (window): while every write has succeeded, the file lacks at most one
\* recorded interaction.
C24_AtMostOneUnflushed ==
    \A e \in DOMAIN eng :
        LET t == eng[e].trajectory IN
        (t.exists /\ AllWritesSucceeded(t)) =>
            /\ t.file.valid
            /\ Len(t.interactions) - Len(t.file.interactions) \in {0, 1}
            /\ t.file.interactions = SubSeq(t.interactions, 1, Len(t.file.interactions))

\* C24: the cadence and the window together
C24_InteractionFlush == C24_InteractionFlushCadence /\ []C24_AtMostOneUnflushed

C24_Witness ==
    LET t == eng[TheAgent].trajectory IN
    /\ t.interactions = <<"request", "request", "response">>
    /\ AllWritesSucceeded(t)
    /\ Cardinality(InteractionFlushes(t)) = 2
    /\ t.file = InMemory(t)

\* A step that attempts a write of the trajectory
AttemptsWrite(e) ==
    Len(eng'[e].trajectory.flushes) = Len(eng[e].trajectory.flushes) + 1

\* C25: no write of the trajectory leaves the recorder with an exception; a
\* step of the recorder, whether its write fails or not, adds exactly the one
\* event it records to the record in memory and changes nothing else of it;
\* and every write that succeeds puts the whole record in memory into the
\* file, the events of earlier failed writes included.
C25_FailedWriteNonFatal ==
    [][\A e \in DOMAIN eng :
          LET t == eng[e].trajectory
              u == eng'[e].trajectory
          IN  /\ ~u.raised
              /\ (u # t) =>
                    /\ Recorded(u) = Recorded(t) + 1
                    /\ \/ /\ u.actions = t.actions
                          /\ SubSeq(u.interactions, 1, Len(t.interactions)) = t.interactions
                       \/ /\ u.interactions = t.interactions
                          /\ SubSeq(u.actions, 1, Len(t.actions)) = t.actions
              /\ (AttemptsWrite(e) /\ u.flushes[Len(u.flushes)].ok)
                    => u.file = InMemory(u)
              /\ (AttemptsWrite(e) /\ ~u.flushes[Len(u.flushes)].ok)
                    => u.file.actions = t.file.actions
                       /\ u.file.interactions = t.file.interactions]_vars

C25_Witness ==
    LET t == eng[TheAgent].trajectory IN
    /\ Len(t.flushes) >= 3
    /\ ~t.flushes[Len(t.flushes) - 1].ok
    /\ t.flushes[Len(t.flushes)].ok
    /\ t.flushes[Len(t.flushes)].actions + t.flushes[Len(t.flushes)].interactions
          > t.flushes[Len(t.flushes) - 1].actions + t.flushes[Len(t.flushes) - 1].interactions
    /\ t.file = InMemory(t)
    /\ Recorded(t) >= 3

\* The container shape of a value: lists and dicts with their lengths and
\* keys, anything else, and anything stored under a binary key, a leaf
RECURSIVE Shape(_)
Shape(d) ==
    IF d.kind = "list"
    THEN List([i \in 1..Len(d.vals) |-> Shape(d.vals[i])])
    ELSE IF d.kind = "dict"
    THEN Dict(d.keys, [i \in 1..Len(d.vals) |->
                          IF d.keys[i] \in BinaryKeys THEN Value("leaf", 0)
                          ELSE Shape(d.vals[i])])
    ELSE Value("leaf", 0)

\* The values stored under a binary key at any depth
RECURSIVE UnderBinaryKeys(_)
UnderBinaryKeys(d) ==
    IF d.kind \in {"list", "dict"}
    THEN UNION {(IF d.kind = "dict" /\ d.keys[i] \in BinaryKeys
                 THEN {d.vals[i]} ELSE {}) \cup UnderBinaryKeys(d.vals[i])
                : i \in 1..Len(d.vals)}
    ELSE {}

\* The values that are no containers and are not under a binary key, in order
RECURSIVE Flatten(_)
RECURSIVE FlattenAll(_, _)
FlattenAll(d, i) ==
    IF i > Len(d.vals) THEN <<>>
    ELSE (IF d.kind = "dict" /\ d.keys[i] \in BinaryKeys
          THEN <<>> ELSE Flatten(d.vals[i])) \o FlattenAll(d, i + 1)

Flatten(d) == IF d.kind \in {"list", "dict"} THEN FlattenAll(d, 1) ELSE <<d>>

\* C26: the sanitized value has the container shape of the payload, holds
\* the placeholder under every key 'binary_data' or 'image_data' at any
\* depth, keeps every scalar and holds the string form of every other value.
C26_Sanitized ==
    \A e \in DOMAIN eng :
        LET t == eng[e].trajectory IN
        t.sanitized # <<>> =>
            LET data == t.payload[1]
                out == t.sanitized[1]
            IN  /\ Shape(out) = Shape(data)
                /\ UnderBinaryKeys(out) \subseteq {Placeholder}
                /\ Len(Flatten(out)) = Len(Flatten(data))
                /\ \A i \in 1..Len(Flatten(data)) :
                      Flatten(out)[i] = IF Flatten(data)[i].kind \in ScalarKinds
                                        THEN Flatten(data)[i]
                                        ELSE Str(Flatten(data)[i])

C26_Witness ==
    LET t == eng[TheAgent].trajectory IN
    /\ t.payload = <<List(<<Dict(<<"image_data", "text">>,
                                 <<Value("bytes", 1), Value("bytes", 1)>>)>>)>>
    /\ t.sanitized = <<List(<<Dict(<<"image_data", "text">>,
                                   <<Placeholder, Value("str", 11)>>)>>)>>

\* C27 (state): the tool list of every constructed engine holds a tool named
\* 'done', and the default list never holds two.
C27_EveryEngineHasDone ==
    /\ \A e \in DOMAIN eng : Count(coord.lists[eng[e].tools], "done") >= 1
    /\ Count(coord.lists["default"], "done") <= 1

\* C27 (step): a construction appends one 'done' tool to the list it was
\* given exactly when that list held none, and changes no list otherwise.
C27_AppendsExactlyWhenMissing ==
    [][Len(eng') = Len(eng) + 1 =>
          LET l == eng'[Len(eng')].tools IN
          /\ coord'.lists[l] = IF Count(coord.lists[l], "done") = 0
                               THEN Append(coord.lists[l], "done")
                               ELSE coord.lists[l]
          /\ \A m \in DOMAIN coord.lists : m # l => coord'.lists[m] = coord.lists[m]]_vars

\* C27: both together
C27_DoneTool == []C27_EveryEngineHasDone /\ C27_AppendsExactlyWhenMissing

C27_Witness ==
    /\ Len(eng) = 3
    /\ eng[1].tools = "default" /\ eng[2].tools = "default"
    /\ eng[3].tools = "caller-1"
    /\ coord.lists["default"] = <<"done">>
    /\ coord.lists["caller-1"] = <<"computer-preview", "done">>
    /\ coord.lists["caller-2"] = <<>>

\* wait_for_agents_completion has returned under 'all' and no timeout has
\* made run_branches stop the engines
JoinedAll ==
    /\ coord.pc \in {"wait", "results", "returned"}
    /\ coord.waiter.pc = "returned"
    /\ coord.waiter.mode = "all"
    /\ \A e \in Agents : ~eng[e].stop_called

\* C28 as stated: once the wait under 'all' has returned, no engine changes
\* steps_taken, last_response or conversation, invokes its callback or acts
\* on its environment, and the results run_branches returns hold the
\* engines' final steps and output.
C28_ResultsFinalAtJoinAsStated ==
    /\ [][JoinedAll =>
             \A e \in Agents :
                /\ eng'[e].steps_taken = eng[e].steps_taken
                /\ eng'[e].last_response = eng[e].last_response
                /\ eng'[e].conversation = eng[e].conversation
                /\ eng'[e].callbacks = eng[e].callbacks
                /\ computers'[eng[e].computer].actions
                      = computers[eng[e].computer].actions]_vars
    /\ [](JoinedAll /\ coord.pc = "returned" =>
             \A k \in 1..Len(coord.results) :
                /\ coord.results[k].steps = eng[coord.results[k].branch_id].steps_taken
                /\ coord.results[k].output = eng[coord.results[k].branch_id].last_response)

\* C29 as stated: an engine whose run loop has ended, for whatever reason,
\* has its running flag false.
C29_RunningFalseAtLoopEndAsStated ==
    \A e \in Agents : eng[e].pc = "ended" => ~eng[e].running

\* The threads executing _run_loop of an engine
RunLoops(a) == Len(a.superseded) + (IF a.pc \in {"idle", "ended"} THEN 0 ELSE 1)

\* C30 as stated: at any time at most one thread executes the run loop of
\* an engine.
C30_AtMostOneRunLoopAsStated ==
    \A e \in DOMAIN eng : RunLoops(eng[e]) <= 1

\* The actions an engine has executed: the computer_call_output items of its
\* conversation in progress
ActionsOf(a) ==
    Cardinality({i \in 1..Len(a.items) : a.items[i].type = "computer_call_output"})

\* C31: the engines of one run_branches call have environments forked from
\* the one snapshot of the call, each engine's environment is the fork
\* recorded for its branch id and is not the main environment, no two
\* engines have the same environment, and the actions executed on an
\* environment are those of its own engine (none on the main environment).
C31_EnvironmentIsolation ==
    /\ Len(coord.base_snapshot) <= 1
    /\ computers[MainComputer].actions = 0
    /\ \A e \in Agents :
          /\ eng[e].computer # MainComputer
          /\ eng[e].computer = DictGet(coord.branches, e)
          /\ computers[eng[e].computer].actions
                = coord.base_snapshot[1].actions + ActionsOf(eng[e])
    /\ \A e1 \in Agents, e2 \in Agents :
          e1 # e2 => eng[e1].computer # eng[e2].computer

C31_Witness ==
    /\ Cardinality(Agents) = 2
    /\ \A e \in Agents : ActionsOf(eng[e]) >= 1
    /\ computers[1].actions >= 1 /\ computers[2].actions >= 1
    /\ computers[MainComputer].actions = 0

\* C32 as stated: every forked environment that exists is the value of an
\* entry of self.branches, where cleanup_branches finds it.
C32_NoForkLeakedAsStated ==
    \A c \in DOMAIN computers :
        c # MainComputer => \E i \in 1..Len(coord.branches) : coord.branches[i].value = c

\* C33 as stated: a run is reported as having reached the maximum number of
\* steps exactly when its loop was left with steps_taken = max_steps and no
\* 'done' call was received.
C33_TerminalClassificationAsStated ==
    \A e \in DOMAIN eng :
        eng[e].pc = "ended" =>
            (eng[e].reported = "max_steps"
                <=> (eng[e].exit = "exited" /\ eng[e].steps_taken = eng[e].max_steps
                        /\ ~eng[e].done_seen))

\* C34: the first request of a run has the initial task as its only user
\* message and is issued without delay; every later request follows the
\* delay and one new continuation prompt; the input of the k-th request
\* holds k user messages.
C34_RequestInputs ==
    \A e \in DOMAIN eng :
        \A k \in 1..Len(eng[e].requests) :
            LET r == eng[e].requests[k] IN
            /\ r.users = k
            /\ k = 1 => (~r.slept /\ r.last_user = eng[e].initial_task)
            /\ k > 1 => (r.slept /\ r.last_user = "continuation")

C34_Witness ==
    /\ Len(eng[TheAgent].requests) = 2
    /\ eng[TheAgent].requests[2].users = 2
    /\ eng[TheAgent].pc = "ended"

IsOutputItem(item) == item.type \in {"function_call_output", "computer_call_output"}

\* The conversation in progress ends with the items of the last response
\* followed by nothing but the outputs made while handling them
ResponseThenOutputs(a) ==
    \E p \in 1..Len(a.items) :
        /\ p + Len(a.response) - 1 <= Len(a.items)
        /\ SubSeq(a.items, p, p + Len(a.response) - 1) = a.response
        /\ \A i \in (p + Len(a.response))..Len(a.items) : IsOutputItem(a.items[i])

StepCallbacks(a) == SelectSeq(a.callbacks, LAMBDA c : c.action # "error")

\* C36: the callback has been invoked once for every completed step, in
\* order, the k-th time with step k, which is steps_taken at that moment,
\* and with action 'initial_task' for step 1 and 'continuation' afterwards.
C36_CallbackPerStep ==
    \A e \in DOMAIN eng :
        LET a == eng[e]
            cbs == StepCallbacks(a)
        IN  IF a.has_callback
            THEN /\ Len(cbs) = a.steps_taken
                 /\ \A k \in 1..Len(cbs) :
                       /\ cbs[k].step = k
                       /\ cbs[k].action = IF k = 1 THEN "initial_task" ELSE "continuation"
            ELSE a.callbacks = <<>>

C36_Witness ==
    /\ eng[TheAgent].steps_taken = 2
    /\ eng[TheAgent].callbacks = <<[step |-> 1, action |-> "initial_task"],
                                   [step |-> 2, action |-> "continuation"]>>

\* C37 as stated: when the handler has dealt with an action, the screenshot
\* stored for it shows the environment after that action was executed.
C37_PostActionScreenshotAsStated ==
    \A e \in DOMAIN eng :
        LET s == eng[e].screens IN
        s.last = "ok" =>
            /\ s.files[Len(s.files)].call = s.handled
            /\ s.files[Len(s.files)].shows = computers[eng[e].computer].actions

\* The screenshots stored: the writes that succeeded
Stored(s) == SelectSeq(s.files, LAMBDA f : f.ok)

\* C38: the k-th screenshot stored is screenshot_(k-1).png, so the numbers
\* are 0, 1, 2, ... without reuse or gap, and the screenshot_name recorded
\* with an action is the name of the screenshot stored by the call of the
\* handler that recorded the action.
C38_ScreenshotNames ==
    \A e \in DOMAIN eng :
        LET s == eng[e].screens
            t == eng[e].trajectory
        IN  /\ s.counter = Len(Stored(s))
            /\ \A k \in 1..Len(Stored(s)) : Stored(s)[k].name = k - 1
            /\ \A i \in 1..Len(t.actions) :
                  t.actions[i].type = "computer_call" =>
                      \E k \in 1..Len(Stored(s)) :
                          /\ Stored(s)[k].name = t.actions[i].screenshot_name
                          /\ Stored(s)[k].call = t.actions[i].call

C38_Witness ==
    LET s == eng[TheAgent].screens
        t == eng[TheAgent].trajectory
    IN  /\ s.handled = 3
        /\ Len(s.files) = 3 /\ s.files[1].ok /\ ~s.files[2].ok /\ s.files[3].ok
        /\ Len(t.actions) = 2
        /\ t.actions[1].screenshot_name = 0 /\ t.actions[1].call = 1
        /\ t.actions[2].screenshot_name = 1 /\ t.actions[2].call = 3

\* C39: there is one engine per entry of self.branches, and the engine of
\* the i-th branch id has that id, the environment recorded for it, and the
\* initial task made of the shared context and the i-th instruction.
C39_OneEnginePerBranch ==
    Agents # {} =>
        /\ Agents = {coord.branches[i].key : i \in 1..Len(coord.branches)}
        /\ Cardinality(Agents) = Len(coord.branch_instructions)
        /\ \A i \in 1..Len(coord.branches) :
              LET a == eng[coord.branches[i].key] IN
              /\ a.branch_id = coord.branches[i].key
              /\ a.computer = coord.branches[i].value
              /\ a.initial_task.context = DefaultContext
              /\ a.initial_task.instruction = coord.branch_instructions[i]
        /\ \A e1 \in Agents, e2 \in Agents :
              e1 # e2 => eng[e1].initial_task.instruction # eng[e2].initial_task.instruction

C39_Witness ==
    /\ Cardinality(Agents) = 2
    /\ eng["branch-0"].initial_task.instruction = "instruction-0"
    /\ eng["branch-1"].initial_task.instruction = "instruction-1"
    /\ eng["branch-0"].computer = 1 /\ eng["branch-1"].computer = 2
    /\ \A e \in Agents : eng[e].pc = "ended"

\* C40 as stated: two writes to one path under the storage folder are writes
\* of one engine.
C40_OneWriterPerPathAsStated ==
    \A i \in 1..Len(coord.files), j \in 1..Len(coord.files) :
        coord.files[i].path = coord.files[j].path
            => coord.files[i].writer = coord.files[j].writer

====
